---------------------------- MODULE Spec2Model ----------------------------
(***************************************************************************)
(* A model of the parallel simulation core of alien:                       *)
(*   - the concurrent hash map (src/unnamed/part_001, class HashMap),      *)
(*   - the particle passes of one time step                                *)
(*     (src/source/ModelGpu/ParticleProcessor.cuh, class ParticleProcessor)*)
(* Each specification below keeps the variables of the other component at  *)
(* their initial value.                                                    *)
(***************************************************************************)
EXTENDS Integers, Sequences, FiniteSets, TLC

(***************************************************************************)
(* Bounds of the model.                                                    *)
(***************************************************************************)
MaxSize == 3            \* table sizes 1..MaxSize are explored
NumKeys == 3            \* keys 1..NumKeys
NumValues == 2          \* values 1..NumValues; 0 is Value()
NumThreads == 2         \* concurrent callers of the hash map
NumParticles == 3       \* at most this many particles in the arena
NumLanes == 2           \* lanes (threads of the grid) of a particle pass
WorldSize == 2          \* the universe is WorldSize x WorldSize grid cells
MaxSteps == 2           \* time steps explored
IntBits == 4            \* width of int in the mapCorrection_Kernel calls
MaxCalls == 2           \* mapCorrection_Kernel calls made on one position

Keys == 1..NumKeys
Values == 1..NumValues
Threads == 1..NumThreads
DefaultValue == 0       \* Value(): the default-constructed Value (line 90)
NoKey == 0              \* _key of a slot no setKey has written yet (never compared)

VARIABLES
    \* ---- HashMap (part_001) ----
    _size,        \* int _size
    _entries,     \* Entry* _entries: slot index -> [free, locked, key, value]
    hashKind,     \* which Hash functor the map was instantiated with
    th,           \* per thread: position in the running call and its locals
    \* history variables of the hash map (not program state)
    held,         \* thread -> set of slots whose lock the thread holds
    abs,          \* key -> value written by the latest setValue for that key
    returned,     \* keys for which some insertOrAssign has returned
    everInserted, \* keys for which some insertOrAssign was ever called
    \* ---- particle passes (ParticleProcessor.cuh) ----
    particles,        \* particle id -> [absPos, vel, energy, alive, locked], and the
                      \* history field owner: the lane whose exchange took the lock, -1 = none
    particlePointers, \* _data->entities.particlePointers: sequence of ids, 0 = nullptr
    particleMap,      \* _data->particleMap: map entry -> particle id, 0 = nullptr
    cells,            \* sequence of cells [absPos, energy, alive]
    cellMap,          \* _data->cellMap: map entry -> index into cells, 0 = nullptr
    phase,            \* the pass (kernel) that is running
    lane,             \* per lane: position in its loop and its locals
    timestep,         \* number of completed time steps
    \* history variables of the particle passes (not program state)
    atCollision,      \* the particles as they were when the collision pass began
    merged,           \* <<particle, otherParticle>> of each merge applied in this pass
    atDataCopy,       \* particles, pointers and cells as they were when the data copy
                      \* pass began
    \* ---- mapCorrection_Kernel (part_000) ----
    wrapCall,         \* the position and size handed to mapCorrection_Kernel, and
                      \* the history of the calls made on that position
    \* ---- _CudaSimulationFacade (ParticleProcessor.cuh, line 161-676) ----
    cudaDevice,         \* CudaInitializer: the devices found, the device set, what was thrown
    _currentTimestep,   \* std::atomic<uint64_t> _currentTimestep
    entities,           \* the entity array of the simulation data: ids, 0 = a dead entity
    arraySize,          \* entities.cells.getSize_host(): the capacity of the entity array
    accessTOSize,       \* number of records the transfer buffers _cudaAccessTO hold
    selected,           \* ids of the selected entities
    arrayResizeNeeded,  \* _cudaSimulationResult->isArrayResizeNeeded()
    devicePending,      \* a device pass was launched and not yet synchronized
    nextId,             \* id the next created entity gets
    \* history variables of the facade (not program state)
    lastCall,           \* the latest public call: its name, the state before it, what it did
    inspections,        \* per calcTimestep call since construction or setCurrentTimestep,
                        \* the latest CheckPeriod of them: <<the timestep the call began
                        \* with, whether it inspected the resize signal>>
    overflowAge,        \* calcTimestep calls completed since the resize signal was set
                        \* and not yet followed by a resize; -1 if the signal is not set
    \* ---- ArrayController: allocation from one arena (part_000, line 133-134) ----
    arena,              \* [numEntries, size, overflow]: the shared counter, the capacity
                        \* and the overflow flag of one arena
    wg,                 \* per work-group: its request, and the first index it was given
    \* ---- movement_Kernel (part_000, line 110-195) ----
    current,            \* which of the two arenas of each kind is data.clustersAC1 and
                        \* data.cellsAC1; the other one is clustersAC2 and cellsAC2
    clustersAC,         \* arena -> [numEntries, size, overflow, data] of ClusterCuda
    cellsAC,            \* arena -> [numEntries, size, overflow, data] of CellCuda
    map1,               \* data.map1: mapEntry + layer * slice -> pointer to a cell
    mth,                \* per block and thread: position in movement_Kernel and locals
    shared,             \* per block: the __shared__ rotMatrix, newCells, newCluster
    kernelRuns,         \* number of completed movement_Kernel launches
    \* history variable of the movement pass (not program state)
    accessLog,          \* the reads and writes of entities made by the running launch
    \* ---- _CudaSimulationFacade: the three arenas and the transfer buffers ----
    arenaEntries,       \* entities.cells, .particles, .tokens: getNumEntries_host()
    arraySizes,         \* entities.cells, .particles, .tokens: getSize_host()
    _cudaAccessTO,      \* the device transfer object: the capacity of its cells,
                        \* particles and tokens buffers, and the records in it
    dataTO,             \* the transfer object of the caller: the records in it
    \* history variable of the transfer (not program state)
    inspection          \* the latest getInspectedSimulationData call: the ids given,
                        \* the ids handed to the pass, the dataTO before the call

hmVars == <<_size, _entries, hashKind, th, held, abs, returned, everInserted>>
pVars == <<particles, particlePointers, particleMap, cells, cellMap, phase, lane,
           timestep, atCollision, merged, atDataCopy>>
wVars == <<wrapCall>>
fVars == <<cudaDevice, _currentTimestep, entities, arraySize, accessTOSize, selected,
           arrayResizeNeeded, devicePending, nextId, lastCall, inspections, overflowAge>>
acVars == <<arena, wg>>
mvVars == <<current, clustersAC, cellsAC, map1, mth, shared, kernelRuns, accessLog>>
toVars == <<arenaEntries, arraySizes, _cudaAccessTO, dataTO, inspection>>
vars == <<hmVars, pVars, wVars, fVars, acVars, mvVars, toVars>>

(***************************************************************************)
(* HashMap                                                                 *)
(***************************************************************************)
Slots == 0..(_size - 1)

\* _hash(key): either the identity on int keys or a functor under which all
\* keys collide on one slot.
_hash(key) == IF hashKind = "identity" THEN key ELSE 0

\* init_blockCall: every slot free, unlocked.
FreshEntry == [free |-> 0, locked |-> 0, key |-> NoKey, value |-> DefaultValue]

IdleThread == [pc |-> "idle", op |-> "none", key |-> NoKey, value |-> DefaultValue,
               index |-> 0, dummy |-> 0, wasFree |-> 0, result |-> DefaultValue,
               pre |-> FALSE, expect |-> DefaultValue, respects |-> FALSE]

StoredKeys == {_entries[i].key : i \in {j \in Slots : _entries[j].free = 1 /\ _entries[j].key # NoKey}}

\* keys of the insertOrAssign calls in progress
PendingKeys == {th[t].key : t \in {u \in Threads : th[u].op = "insertOrAssign"}}

\* no mapCorrection_Kernel call is being followed
WrapIdle == wrapCall = [kind |-> "none", size |-> <<1, 1>>, pos |-> <<0, 0>>,
                        orig |-> <<0, 0>>, prev |-> <<0, 0>>, n |-> 0]

\* initCuda is not being followed
CudaIdle ==
    cudaDevice = [devices |-> <<>>, device |-> -1, result |-> "none", thrown |-> "none",
                  calls |-> 0]

\* no facade has been constructed
FacadeIdle ==
    /\ _currentTimestep = 0
    /\ entities = <<>>
    /\ arraySize = 0
    /\ accessTOSize = 0
    /\ selected = {}
    /\ arrayResizeNeeded = FALSE
    /\ devicePending = FALSE
    /\ nextId = 1
    /\ lastCall = [op |-> "none"]
    /\ inspections = <<>>
    /\ overflowAge = -1

\* no allocation from the arena is being followed
ArenaIdle ==
    /\ arena = [numEntries |-> 0, size |-> 0, overflow |-> FALSE]
    /\ wg = <<>>

\* movement_Kernel is not being followed
MovementIdle ==
    /\ current = 1
    /\ clustersAC = <<>>
    /\ cellsAC = <<>>
    /\ map1 = <<>>
    /\ mth = <<>>
    /\ shared = <<>>
    /\ kernelRuns = 0
    /\ accessLog = {}

\* the arenas and the transfer buffers of a facade are not being followed
TransferIdle ==
    /\ arenaEntries = <<>>
    /\ arraySizes = <<>>
    /\ _cudaAccessTO = <<>>
    /\ dataTO = <<>>
    /\ inspection = <<>>

\* the particle passes are not running
ParticlesIdle ==
    /\ particles = <<>>
    /\ particlePointers = <<>>
    /\ particleMap = <<>>
    /\ cells = <<>>
    /\ cellMap = <<>>
    /\ phase = "none"
    /\ lane = <<>>
    /\ timestep = 0
    /\ atCollision = <<>>
    /\ merged = {}
    /\ atDataCopy = <<>>

\* init_blockCall(size, arrays): _size = size, every slot free and unlocked
InitHashMap ==
    /\ ParticlesIdle
    /\ WrapIdle
    /\ CudaIdle
    /\ FacadeIdle
    /\ ArenaIdle
    /\ MovementIdle
    /\ TransferIdle
    /\ _size \in 1..MaxSize
    /\ hashKind \in {"identity", "collide"}
    /\ _entries = [i \in 0..(_size - 1) |-> FreshEntry]
    /\ th = [t \in Threads |-> IdleThread]
    /\ held = [t \in Threads |-> {}]
    /\ abs = [k \in Keys |-> DefaultValue]
    /\ returned = {}
    /\ everInserted = {}

\* mutant: the lock is taken without waiting for the thread that holds it
getLock_noSpin(t, i) == held' = [held EXCEPT ![t] = @ \cup {i}]

\* Entry::getLock: spins on atomicExch_block(&_locked, 1) until it reads 0.
getLock(t, i) ==
    /\ _entries[i].locked = 0
    /\ held' = [held EXCEPT ![t] = @ \cup {i}]

\* Entry::releaseLock: atomicExch_block(&_locked, 0).
releaseLock(t, i) == held' = [held EXCEPT ![t] = @ \ {i}]

\* ---- insertOrAssign --------------------------------------------------
insertOrAssign_call(t) ==
    /\ th[t].pc = "idle"
    /\ \E key \in Keys, value \in Values :
        /\ th' = [th EXCEPT ![t] = [IdleThread EXCEPT
                    !.pc = "ins_loop", !.op = "insertOrAssign",
                    !.key = key, !.value = value,
                    !.index = _hash(key) % _size,
                    !.respects = (key \in StoredKeys
                                  \/ Cardinality(StoredKeys \cup PendingKeys \cup {key}) <= _size)]]
        /\ everInserted' = everInserted \cup {key}
    /\ UNCHANGED <<acVars, mvVars, toVars, pVars, wVars, fVars, _size, _entries, hashKind, held, abs, returned>>

\* line 36-38: if (++dummy == _size) { printf(...); while (true) {} }
insertOrAssign_guard(t) ==
    /\ th[t].pc = "ins_loop"
    /\ th' = [th EXCEPT ![t].dummy = @ + 1,
                        ![t].pc = IF th[t].dummy + 1 = _size THEN "hang" ELSE "ins_lock"]
    /\ UNCHANGED <<acVars, mvVars, toVars, pVars, wVars, fVars, _size, _entries, hashKind, held, abs, returned, everInserted>>

\* line 39-40: entry.getLock(1)
insertOrAssign_lock(t) ==
    /\ th[t].pc = "ins_lock"
    /\ getLock(t, th[t].index)
    /\ _entries' = [_entries EXCEPT ![th[t].index].locked = 1]
    /\ th' = [th EXCEPT ![t].pc = "ins_setFree"]
    /\ UNCHANGED <<acVars, mvVars, toVars, pVars, wVars, fVars, _size, hashKind, abs, returned, everInserted>>

\* line 41-42: wasFree = entry.setFree(1)
insertOrAssign_setFree(t) ==
    /\ th[t].pc = "ins_setFree"
    /\ _entries' = [_entries EXCEPT ![th[t].index].free = 1]
    /\ th' = [th EXCEPT ![t].wasFree = _entries[th[t].index].free,
                        ![t].pc = IF _entries[th[t].index].free = 1 THEN "ins_used" ELSE "ins_new"]
    /\ UNCHANGED <<acVars, mvVars, toVars, pVars, wVars, fVars, _size, hashKind, held, abs, returned, everInserted>>

\* mutant: the key comparison of line 43 is dropped, any used slot is assigned
insertOrAssign_used_anyKey(t) ==
    /\ th[t].pc = "ins_used"
    /\ LET i == th[t].index IN
        /\ _entries' = [_entries EXCEPT ![i].value = th[t].value, ![i].locked = 0]
        /\ releaseLock(t, i)
        /\ abs' = [abs EXCEPT ![th[t].key] = th[t].value]
        /\ th' = [th EXCEPT ![t].pc = "done"]
        /\ returned' = returned \cup {th[t].key}
    /\ UNCHANGED <<acVars, mvVars, toVars, pVars, wVars, fVars, _size, hashKind, everInserted>>

\* mutant: the releaseLock of line 48 is missing on a key mismatch
insertOrAssign_used_keepLock(t) ==
    /\ th[t].pc = "ins_used"
    /\ LET i == th[t].index IN
       IF _entries[i].key = th[t].key
       THEN /\ _entries' = [_entries EXCEPT ![i].value = th[t].value, ![i].locked = 0]
            /\ releaseLock(t, i)
            /\ abs' = [abs EXCEPT ![th[t].key] = th[t].value]
            /\ th' = [th EXCEPT ![t].pc = "done"]
            /\ returned' = returned \cup {th[t].key}
       ELSE /\ th' = [th EXCEPT ![t].index = (i + 1) % _size, ![t].pc = "ins_loop"]
            /\ UNCHANGED <<_entries, held, abs, returned>>
    /\ UNCHANGED <<acVars, mvVars, toVars, pVars, wVars, fVars, _size, hashKind, everInserted>>

\* mutant: on a key mismatch the slot is given back with setFree(0)
insertOrAssign_used_setsFree(t) ==
    /\ th[t].pc = "ins_used"
    /\ LET i == th[t].index IN
       IF _entries[i].key = th[t].key
       THEN /\ _entries' = [_entries EXCEPT ![i].value = th[t].value, ![i].locked = 0]
            /\ releaseLock(t, i)
            /\ abs' = [abs EXCEPT ![th[t].key] = th[t].value]
            /\ th' = [th EXCEPT ![t].pc = "done"]
            /\ returned' = returned \cup {th[t].key}
       ELSE /\ _entries' = [_entries EXCEPT ![i].locked = 0, ![i].free = 0]
            /\ releaseLock(t, i)
            /\ th' = [th EXCEPT ![t].index = (i + 1) % _size, ![t].pc = "ins_loop"]
            /\ UNCHANGED <<abs, returned>>
    /\ UNCHANGED <<acVars, mvVars, toVars, pVars, wVars, fVars, _size, hashKind, everInserted>>

\* line 43-50: the slot was in use
insertOrAssign_used(t) ==
    /\ th[t].pc = "ins_used"
    /\ LET i == th[t].index IN
       IF _entries[i].key = th[t].key
       THEN /\ _entries' = [_entries EXCEPT ![i].value = th[t].value, ![i].locked = 0]
            /\ releaseLock(t, i)
            /\ abs' = [abs EXCEPT ![th[t].key] = th[t].value]
            /\ th' = [th EXCEPT ![t].pc = "done"]
            /\ returned' = returned \cup {th[t].key}
       ELSE /\ _entries' = [_entries EXCEPT ![i].locked = 0]
            /\ releaseLock(t, i)
            /\ th' = [th EXCEPT ![t].index = (i + 1) % _size, ![t].pc = "ins_loop"]
            /\ UNCHANGED <<abs, returned>>
    /\ UNCHANGED <<acVars, mvVars, toVars, pVars, wVars, fVars, _size, hashKind, everInserted>>

\* line 53-56: the slot was free: setKey, setValue, releaseLock
insertOrAssign_new(t) ==
    /\ th[t].pc = "ins_new"
    /\ LET i == th[t].index IN
        /\ _entries' = [_entries EXCEPT ![i].key = th[t].key, ![i].value = th[t].value,
                                        ![i].locked = 0]
        /\ releaseLock(t, i)
    /\ abs' = [abs EXCEPT ![th[t].key] = th[t].value]
    /\ th' = [th EXCEPT ![t].pc = "done"]
    /\ returned' = returned \cup {th[t].key}
    /\ UNCHANGED <<acVars, mvVars, toVars, pVars, wVars, fVars, _size, hashKind, everInserted>>

insertOrAssign(t) ==
    \/ insertOrAssign_call(t)
    \/ insertOrAssign_guard(t)
    \/ insertOrAssign_lock(t)
    \/ insertOrAssign_setFree(t)
    \/ insertOrAssign_used(t)
    \/ insertOrAssign_new(t)

\* ---- contains --------------------------------------------------------
\* line 61-62: index = hash % size; for (i = 0; ...)   (dummy holds i)
contains_call(t) ==
    /\ th[t].pc = "idle"
    /\ \E key \in Keys :
        th' = [th EXCEPT ![t] = [IdleThread EXCEPT
                    !.pc = "con_loop", !.op = "contains", !.key = key,
                    !.index = _hash(key) % _size,
                    !.pre = (key \in returned)]]
    /\ UNCHANGED <<acVars, mvVars, toVars, pVars, wVars, fVars, _size, _entries, hashKind, held, abs, returned, everInserted>>

\* line 62: i < _size, else line 75: return false
contains_guard(t) ==
    /\ th[t].pc = "con_loop"
    /\ th' = [th EXCEPT ![t].pc = IF th[t].dummy < _size THEN "con_lock" ELSE "done",
                        ![t].result = FALSE]
    /\ UNCHANGED <<acVars, mvVars, toVars, pVars, wVars, fVars, _size, _entries, hashKind, held, abs, returned, everInserted>>

\* line 63-64: entry.getLock(2)
contains_lock(t) ==
    /\ th[t].pc = "con_lock"
    /\ getLock(t, th[t].index)
    /\ _entries' = [_entries EXCEPT ![th[t].index].locked = 1]
    /\ th' = [th EXCEPT ![t].pc = "con_check"]
    /\ UNCHANGED <<acVars, mvVars, toVars, pVars, wVars, fVars, _size, hashKind, abs, returned, everInserted>>

\* line 65-74
contains_check(t) ==
    /\ th[t].pc = "con_check"
    /\ LET i == th[t].index IN
        /\ _entries' = [_entries EXCEPT ![i].locked = 0]
        /\ releaseLock(t, i)
        /\ IF _entries[i].free = 0
           THEN th' = [th EXCEPT ![t].pc = "done", ![t].result = FALSE]
           ELSE IF _entries[i].key = th[t].key
           THEN th' = [th EXCEPT ![t].pc = "done", ![t].result = TRUE]
           ELSE th' = [th EXCEPT ![t].pc = "con_loop", ![t].dummy = @ + 1,
                                 ![t].index = (i + 1) % _size]
    /\ UNCHANGED <<acVars, mvVars, toVars, pVars, wVars, fVars, _size, hashKind, abs, returned, everInserted>>

contains(t) ==
    \/ contains_call(t)
    \/ contains_guard(t)
    \/ contains_lock(t)
    \/ contains_check(t)

\* ---- at --------------------------------------------------------------
at_call(t) ==
    /\ th[t].pc = "idle"
    /\ \E key \in Keys :
        th' = [th EXCEPT ![t] = [IdleThread EXCEPT
                    !.pc = "at_loop", !.op = "at", !.key = key,
                    !.index = _hash(key) % _size,
                    !.pre = (key \in returned),
                    !.respects = (key \in StoredKeys)]]
    /\ UNCHANGED <<acVars, mvVars, toVars, pVars, wVars, fVars, _size, _entries, hashKind, held, abs, returned, everInserted>>

\* line 83-85: if (++dummy == _size) { printf(...); while (true) {} }
at_guard(t) ==
    /\ th[t].pc = "at_loop"
    /\ th' = [th EXCEPT ![t].dummy = @ + 1,
                        ![t].pc = IF th[t].dummy + 1 = _size THEN "hang" ELSE "at_lock"]
    /\ UNCHANGED <<acVars, mvVars, toVars, pVars, wVars, fVars, _size, _entries, hashKind, held, abs, returned, everInserted>>

\* line 86-87: entry.getLock(3)
at_lock(t) ==
    /\ th[t].pc = "at_lock"
    /\ getLock(t, th[t].index)
    /\ _entries' = [_entries EXCEPT ![th[t].index].locked = 1]
    /\ th' = [th EXCEPT ![t].pc = "at_check"]
    /\ UNCHANGED <<acVars, mvVars, toVars, pVars, wVars, fVars, _size, hashKind, abs, returned, everInserted>>

\* line 88-98
at_check(t) ==
    /\ th[t].pc = "at_check"
    /\ LET i == th[t].index IN
        /\ _entries' = [_entries EXCEPT ![i].locked = 0]
        /\ releaseLock(t, i)
        /\ IF _entries[i].free = 0
           THEN th' = [th EXCEPT ![t].pc = "done", ![t].result = DefaultValue,
                                 ![t].expect = abs[th[t].key]]
           ELSE IF _entries[i].key = th[t].key
           THEN th' = [th EXCEPT ![t].pc = "done", ![t].result = _entries[i].value,
                                 ![t].expect = abs[th[t].key]]
           ELSE th' = [th EXCEPT ![t].pc = "at_loop", ![t].index = (i + 1) % _size]
    /\ UNCHANGED <<acVars, mvVars, toVars, pVars, wVars, fVars, _size, hashKind, abs, returned, everInserted>>

at(t) ==
    \/ at_call(t)
    \/ at_guard(t)
    \/ at_lock(t)
    \/ at_check(t)

\* the caller takes the result and is ready for its next call
Return(t) ==
    /\ th[t].pc = "done"
    /\ th' = [th EXCEPT ![t] = IdleThread]
    /\ UNCHANGED <<acVars, mvVars, toVars, pVars, wVars, fVars, _size, _entries, hashKind, held, abs, returned, everInserted>>

NextHashMap ==
    \E t \in Threads :
        \/ insertOrAssign(t)
        \/ contains(t)
        \/ at(t)
        \/ Return(t)

SpecHashMap == InitHashMap /\ [][NextHashMap]_vars

(***************************************************************************)
(* Arithmetic.  float/double values are modelled as exact rationals        *)
(* <<n, d>> in lowest terms with d > 0; rounding is not modelled.          *)
(***************************************************************************)
RECURSIVE Gcd(_, _)
Gcd(a, b) == IF b = 0 THEN a ELSE Gcd(b, a % b)

Abs(x) == IF x < 0 THEN -x ELSE x

\* The operators below bind each argument once, {e : x \in {arg}}, because
\* TLC evaluates an operator's argument again at every use of the parameter.
Rat(n0, d0) ==
    CHOOSE r \in {IF d < 0 THEN <<(-n) \div Gcd(Abs(n), Abs(d)), (-d) \div Gcd(Abs(n), Abs(d))>>
                  ELSE <<n \div Gcd(Abs(n), Abs(d)), d \div Gcd(Abs(n), Abs(d))>>
                  : n \in {n0}, d \in {d0}} : TRUE

RatInt(i) == <<i, 1>>
RatAdd(a0, b0) ==
    CHOOSE r \in {Rat(a[1] * b[2] + b[1] * a[2], a[2] * b[2]) : a \in {a0}, b \in {b0}} : TRUE
RatSub(a0, b0) ==
    CHOOSE r \in {Rat(a[1] * b[2] - b[1] * a[2], a[2] * b[2]) : a \in {a0}, b \in {b0}} : TRUE
RatMul(a0, b0) ==
    CHOOSE r \in {Rat(a[1] * b[1], a[2] * b[2]) : a \in {a0}, b \in {b0}} : TRUE
RatDiv(a0, b0) ==
    CHOOSE r \in {Rat(a[1] * b[2], a[2] * b[1]) : a \in {a0}, b \in {b0}} : TRUE
RatLeq(a0, b0) ==
    CHOOSE r \in {a[1] * b[2] <= b[1] * a[2] : a \in {a0}, b \in {b0}} : TRUE
RatLess(a0, b0) ==
    CHOOSE r \in {a[1] * b[2] < b[1] * a[2] : a \in {a0}, b \in {b0}} : TRUE

\* (int)x: conversion to int truncates toward zero
ToInt(a0) ==
    CHOOSE r \in {IF a[1] >= 0 THEN a[1] \div a[2] ELSE -((-a[1]) \div a[2]) : a \in {a0}} : TRUE

\* a % b of C (b > 0): the remainder has the sign of a
CRem(a0, b) == CHOOSE r \in {IF a >= 0 THEN a % b ELSE -((-a) % b) : a \in {a0}} : TRUE

VecAdd(v0, w0) ==
    CHOOSE r \in {<<RatAdd(v[1], w[1]), RatAdd(v[2], w[2])>> : v \in {v0}, w \in {w0}} : TRUE
VecScale(v0, f0) ==
    CHOOSE r \in {<<RatMul(v[1], f), RatMul(v[2], f)>> : v \in {v0}, f \in {f0}} : TRUE

(***************************************************************************)
(* The universe and the maps                                               *)
(***************************************************************************)
size == <<WorldSize, WorldSize>>
MapEntries == 0..(size[1] * size[2] - 1)

\* mutant: the remainder is taken once, without the shift by size
mapCorrection_Kernel_int2_noShift(pos0, sz) ==
    CHOOSE r \in {<<CRem(pos[1], sz[1]), CRem(pos[2], sz[2])>> : pos \in {pos0}} : TRUE

\* mapCorrection_Kernel(int2& pos, int2 const& size)
mapCorrection_Kernel_int2(pos0, sz) ==
    CHOOSE r \in {<<CRem(CRem(pos[1], sz[1]) + sz[1], sz[1]),
                    CRem(CRem(pos[2], sz[2]) + sz[2], sz[2])>> : pos \in {pos0}} : TRUE

\* mutant: the fractional part is subtracted instead of added
mapCorrection_Kernel_double2_fracSign(pos0, sz) ==
    CHOOSE r \in
        {LET fracPart == <<RatSub(pos[1], RatInt(intPart[1])), RatSub(pos[2], RatInt(intPart[2]))>>
             corrected == mapCorrection_Kernel_int2(intPart, sz)
         IN  <<RatSub(RatInt(corrected[1]), fracPart[1]), RatSub(RatInt(corrected[2]), fracPart[2])>> :
            pos \in {pos0}, intPart \in {<<ToInt(pos0[1]), ToInt(pos0[2])>>}} : TRUE

\* mapCorrection_Kernel(double2& pos, int2 const& size)
mapCorrection_Kernel_double2(pos0, sz) ==
    CHOOSE r \in
        {LET fracPart == <<RatSub(pos[1], RatInt(intPart[1])), RatSub(pos[2], RatInt(intPart[2]))>>
             corrected == mapCorrection_Kernel_int2(intPart, sz)
         IN  <<RatAdd(RatInt(corrected[1]), fracPart[1]), RatAdd(RatInt(corrected[2]), fracPart[2])>> :
            pos \in {pos0}, intPart \in {<<ToInt(pos0[1]), ToInt(pos0[2])>>}} : TRUE

\* Map::mapPosCorrection(absPos) of the particle map
mapPosCorrection(pos) == mapCorrection_Kernel_double2(pos, size)

\* the map entry of a position: discretize, wrap, linearize
mapEntry(pos) ==
    CHOOSE r \in {posInt[1] + posInt[2] * size[1] :
                    posInt \in {mapCorrection_Kernel_int2(<<ToInt(pos[1]), ToInt(pos[2])>>, size)}} : TRUE

\* Map::get(pos): the entity stored at the entry of pos, 0 = nullptr
particleMap_get(pos) == particleMap[mapEntry(pos)]
cellMap_get(pos) == cellMap[mapEntry(pos)]

\* a cell map rebuilt from the cells: each entry holds one of the cells at that
\* entry (which one is decided by the order of the writes), or nullptr
CellsAt(cs, e) == {c \in 1..Len(cs) : mapEntry(cs[c].absPos) = e}
EntryChoices(cs, e) == IF CellsAt(cs, e) = {} THEN {0} ELSE CellsAt(cs, e)

RECURSIVE CellMapSeqs(_, _)
CellMapSeqs(cs, n) ==
    IF n = 0 THEN {<<>>}
    ELSE {Append(m, c) : m \in CellMapSeqs(cs, n - 1), c \in EntryChoices(cs, n - 1)}

CellMapsOf(cs) == {[e \in MapEntries |-> m[e + 1]] : m \in CellMapSeqs(cs, size[1] * size[2])}

(***************************************************************************)
(* Simulation parameters (cudaSimulationParameters)                        *)
(***************************************************************************)
cellMinEnergy == 5
cellMass == 1

\* Physics::linearKineticEnergy(mass, vel) = 0.5 * mass * |vel|^2
linearKineticEnergy(mass, vel0) ==
    CHOOSE r \in {RatMul(<<mass, 2>>, RatAdd(RatMul(vel[1], vel[1]), RatMul(vel[2], vel[2]))) :
                    vel \in {vel0}} : TRUE

(***************************************************************************)
(* Lanes                                                                   *)
(***************************************************************************)
Lanes == 0..(NumLanes - 1)

\* calcPartition(numEntities, division, numDivisions): a contiguous block of
\* indices for each lane, sizes differing by at most one
calcPartition(numEntities, division, numDivisions) ==
    LET entitiesByDivisions == numEntities \div numDivisions
        remainder == numEntities % numDivisions
        length == IF division < remainder THEN entitiesByDivisions + 1 ELSE entitiesByDivisions
        startIndex == IF division < remainder
                      THEN (entitiesByDivisions + 1) * division
                      ELSE (entitiesByDivisions + 1) * remainder
                           + entitiesByDivisions * (division - remainder)
    IN  [startIndex |-> startIndex, endIndex |-> startIndex + length - 1]

\* init_gridCall: _particleBlock of lane l, and the lane at the head of its loop
init_gridCall(l, numEntries) ==
    LET block == calcPartition(numEntries, l, NumLanes)
    IN  [pc |-> IF block.startIndex <= block.endIndex THEN "loop" ELSE "end",
         index |-> block.startIndex, endIndex |-> block.endIndex,
         other |-> 0, lockState1 |-> 0, lockState2 |-> 0, pre |-> <<0, 0>>]

\* ++particleIndex; particleIndex <= _particleBlock.endIndex
NextIteration(r) ==
    [r EXCEPT !.index = r.index + 1,
              !.pc = IF r.index + 1 <= r.endIndex THEN "loop" ELSE "end",
              !.other = 0, !.lockState1 = 0, !.lockState2 = 0, !.pre = <<0, 0>>]

\* particlePointers.getEntireArray()[particleIndex] of lane l
Particle(l) == particlePointers[lane[l].index + 1]

AllLanesAtEnd == \A l \in Lanes : lane[l].pc = "end"

(***************************************************************************)
(* Initial state of the particle passes                                    *)
(***************************************************************************)
HashMapIdle ==
    /\ _size = 1
    /\ hashKind = "identity"
    /\ _entries = [i \in {0} |-> FreshEntry]
    /\ th = [t \in Threads |-> IdleThread]
    /\ held = [t \in Threads |-> {}]
    /\ abs = [k \in Keys |-> DefaultValue]
    /\ returned = {}
    /\ everInserted = {}

InitialEnergy(i) == IF i = 1 THEN 4 ELSE IF i = 2 THEN 6 ELSE 3 + i
InitialVel(i) ==
    IF i = 1 THEN <<RatInt(1), RatInt(0)>>
    ELSE IF i = 2 THEN <<RatInt(-1), RatInt(0)>>
    ELSE <<RatInt(0), RatInt(0)>>

InitialCell == [absPos |-> <<RatInt(0), RatInt(0)>>, energy |-> RatInt(20), alive |-> TRUE]

\* a single particle at rest in the interior of an otherwise empty universe
ParticleAtRest(energy) ==
    [absPos |-> <<RatInt(WorldSize - 1), RatInt(WorldSize - 1)>>,
     vel |-> <<RatInt(0), RatInt(0)>>, energy |-> energy, alive |-> TRUE, locked |-> 0,
     owner |-> -1]

InitParticles ==
    /\ HashMapIdle
    /\ WrapIdle
    /\ CudaIdle
    /\ FacadeIdle
    /\ ArenaIdle
    /\ MovementIdle
    /\ TransferIdle
    /\ \/ \E n \in 1..NumParticles : \E xs \in [1..n -> 0..(WorldSize - 1)] :
            /\ particles = [i \in 1..n |->
                              [absPos |-> <<RatInt(xs[i]), RatInt(0)>>, vel |-> InitialVel(i),
                               energy |-> InitialEnergy(i), alive |-> TRUE, locked |-> 0,
                               owner |-> -1]]
            /\ particlePointers = [i \in 1..n |-> i]
            /\ lane = [l \in Lanes |-> init_gridCall(l, n)]
            /\ cells \in {<<>>, <<InitialCell>>}
       \/ \E energy \in {cellMinEnergy, 10} :
            /\ particles = <<ParticleAtRest(energy)>>
            /\ particlePointers = <<1>>
            /\ lane = [l \in Lanes |-> init_gridCall(l, 1)]
            /\ cells = <<>>
    /\ particleMap = [e \in MapEntries |-> 0]
    /\ cellMap \in CellMapsOf(cells)
    /\ phase = "movement"
    /\ timestep = 0
    /\ atCollision = particles
    /\ merged = {}
    /\ atDataCopy = [particles |-> particles, particlePointers |-> particlePointers,
                     cells |-> cells]

(***************************************************************************)
(* ParticleProcessor                                                       *)
(***************************************************************************)
\* processingMovement_gridCall, one iteration (line 43-47)
processingMovement_gridCall(l) ==
    /\ phase = "movement" /\ lane[l].pc = "loop"
    /\ LET particle == Particle(l) IN
        particles' = [particles EXCEPT ![particle].absPos =
                        mapPosCorrection(VecAdd(@, particles[particle].vel))]
    /\ lane' = [lane EXCEPT ![l] = NextIteration(@)]
    /\ UNCHANGED <<acVars, mvVars, toVars, hmVars, wVars, fVars, atDataCopy, particlePointers, particleMap, cells, cellMap, phase, timestep,
                   atCollision, merged>>

\* mutant: the map is filled from the positions the particles had before the
\* movement pass
updateMap_gridCall_stale(l) ==
    /\ phase = "updateMap" /\ lane[l].pc = "loop"
    /\ LET particle == Particle(l) IN
        particleMap' = [particleMap EXCEPT ![mapEntry(atCollision[particle].absPos)] = particle]
    /\ lane' = [lane EXCEPT ![l] = NextIteration(@)]
    /\ UNCHANGED <<acVars, mvVars, toVars, hmVars, wVars, fVars, atDataCopy, particles, particlePointers, cells, cellMap, phase, timestep,
                   atCollision, merged>>

\* mutant: the entry is computed from the x coordinate alone
updateMap_gridCall_rowOnly(l) ==
    /\ phase = "updateMap" /\ lane[l].pc = "loop"
    /\ LET particle == Particle(l) IN
        particleMap' = [particleMap EXCEPT
                          ![mapEntry(<<particles[particle].absPos[1], RatInt(0)>>)] = particle]
    /\ lane' = [lane EXCEPT ![l] = NextIteration(@)]
    /\ UNCHANGED <<acVars, mvVars, toVars, hmVars, wVars, fVars, atDataCopy, particles, particlePointers, cells, cellMap, phase, timestep,
                   atCollision, merged>>

\* updateMap_gridCall: particleMap.set_blockCall writes each particle of the
\* lane's block into the entry of its position (line 52-53)
updateMap_gridCall(l) ==
    /\ phase = "updateMap" /\ lane[l].pc = "loop"
    /\ LET particle == Particle(l) IN
        particleMap' = [particleMap EXCEPT ![mapEntry(particles[particle].absPos)] = particle]
    /\ lane' = [lane EXCEPT ![l] = NextIteration(@)]
    /\ UNCHANGED <<acVars, mvVars, toVars, hmVars, wVars, fVars, atDataCopy, particles, particlePointers, cells, cellMap, phase, timestep,
                   atCollision, merged>>

\* ---- processingCollision_gridCall ---------------------------------------
collisionFrame == <<particlePointers, particleMap, cells, cellMap, phase, timestep, atCollision>>

\* line 59-61: otherParticle = particleMap.get(particle->absPos)
processingCollision_get(l) ==
    /\ phase = "collision" /\ lane[l].pc = "loop"
    /\ LET particle == Particle(l)
           otherParticle == particleMap_get(particles[particle].absPos)
       IN  lane' = [lane EXCEPT ![l] =
                      IF otherParticle # 0 /\ otherParticle # particle
                      THEN [@ EXCEPT !.pc = "alive1", !.other = otherParticle]
                      ELSE NextIteration(@)]
    /\ UNCHANGED <<acVars, mvVars, toVars, hmVars, wVars, fVars, atDataCopy, particles, merged, collisionFrame>>

\* line 62, first operand: particle->alive
processingCollision_alive1(l) ==
    /\ phase = "collision" /\ lane[l].pc = "alive1"
    /\ lane' = [lane EXCEPT ![l] =
                  IF particles[Particle(l)].alive THEN [@ EXCEPT !.pc = "alive2"]
                  ELSE NextIteration(@)]
    /\ UNCHANGED <<acVars, mvVars, toVars, hmVars, wVars, fVars, atDataCopy, particles, merged, collisionFrame>>

\* line 62, second operand: otherParticle->alive
processingCollision_alive2(l) ==
    /\ phase = "collision" /\ lane[l].pc = "alive2"
    /\ lane' = [lane EXCEPT ![l] =
                  IF particles[lane[l].other].alive THEN [@ EXCEPT !.pc = "lock1"]
                  ELSE NextIteration(@)]
    /\ UNCHANGED <<acVars, mvVars, toVars, hmVars, wVars, fVars, atDataCopy, particles, merged, collisionFrame>>

\* DoubleLock::init orders the two locks by address
Lock1(l) == IF Particle(l) <= lane[l].other THEN Particle(l) ELSE lane[l].other
Lock2(l) == IF Particle(l) <= lane[l].other THEN lane[l].other ELSE Particle(l)

\* DoubleLock::tryLock, first exchange: _lockState1 = atomicExch(_lock1, 1)
DoubleLock_tryLock1(l) ==
    /\ phase = "collision" /\ lane[l].pc = "lock1"
    /\ lane' = [lane EXCEPT ![l].lockState1 = particles[Lock1(l)].locked, ![l].pc = "lock2"]
    /\ particles' = [particles EXCEPT ![Lock1(l)].locked = 1,
                                      ![Lock1(l)].owner = IF particles[Lock1(l)].locked = 0 THEN l ELSE @]
    /\ UNCHANGED <<acVars, mvVars, toVars, hmVars, wVars, fVars, atDataCopy, merged, collisionFrame>>

\* DoubleLock::tryLock, second exchange: _lockState2 = atomicExch(_lock2, 1)
DoubleLock_tryLock2(l) ==
    /\ phase = "collision" /\ lane[l].pc = "lock2"
    /\ lane' = [lane EXCEPT ![l].lockState2 = particles[Lock2(l)].locked,
                            ![l].pc = IF lane[l].lockState1 = 0 /\ particles[Lock2(l)].locked = 0
                                      THEN "isLocked" ELSE "unlock"]
    /\ particles' = [particles EXCEPT ![Lock2(l)].locked = 1,
                                      ![Lock2(l)].owner = IF particles[Lock2(l)].locked = 0 THEN l ELSE @]
    /\ UNCHANGED <<acVars, mvVars, toVars, hmVars, wVars, fVars, atDataCopy, merged, collisionFrame>>

\* DoubleLock::releaseLock: gives back the locks whose exchange returned 0
DoubleLock_releaseLock(l) ==
    [i \in DOMAIN particles |->
        IF \/ (i = Lock1(l) /\ lane[l].lockState1 = 0)
           \/ (i = Lock2(l) /\ lane[l].lockState2 = 0)
        THEN [particles[i] EXCEPT !.locked = 0, !.owner = -1]
        ELSE particles[i]]

\* DoubleLock::tryLock, failure: if (0 != _lockState1 || 0 != _lockState2) releaseLock()
DoubleLock_tryLockFailed(l) ==
    /\ phase = "collision" /\ lane[l].pc = "unlock"
    /\ particles' = DoubleLock_releaseLock(l)
    /\ lane' = [lane EXCEPT ![l].pc = "isLocked"]
    /\ UNCHANGED <<acVars, mvVars, toVars, hmVars, wVars, fVars, atDataCopy, merged, collisionFrame>>

\* DoubleLock::isLocked
isLocked(l) == lane[l].lockState1 = 0 /\ lane[l].lockState2 = 0

\* mutant: the test of line 67 is missing, the merge is applied unconditionally
processingCollision_isLocked_ignored(l) ==
    /\ phase = "collision" /\ lane[l].pc = "isLocked"
    /\ lane' = [lane EXCEPT ![l] =
                  [@ EXCEPT !.pc = "merge71",
                            !.pre = <<particles[Particle(l)].energy,
                                      particles[lane[l].other].energy>>]]
    /\ UNCHANGED <<acVars, mvVars, toVars, hmVars, wVars, fVars, atDataCopy, particles, merged, collisionFrame>>

\* line 67-69: if (!lock.isLocked()) continue;
processingCollision_isLocked(l) ==
    /\ phase = "collision" /\ lane[l].pc = "isLocked"
    /\ lane' = [lane EXCEPT ![l] =
                  IF ~isLocked(l) THEN NextIteration(@)
                  ELSE [@ EXCEPT !.pc = "merge71",
                                 !.pre = <<particles[Particle(l)].energy,
                                           particles[lane[l].other].energy>>]]
    /\ UNCHANGED <<acVars, mvVars, toVars, hmVars, wVars, fVars, atDataCopy, particles, merged, collisionFrame>>

\* mutant: the two factors are exchanged
processingCollision_71_swapped(l) ==
    /\ phase = "collision" /\ lane[l].pc = "merge71"
    /\ LET particle == Particle(l)
           otherParticle == lane[l].other
           factor1 == RatDiv(RatInt(particles[particle].energy),
                             RatInt(particles[particle].energy + particles[otherParticle].energy))
           factor2 == RatSub(RatInt(1), factor1)
       IN  particles' = [particles EXCEPT ![particle].vel =
                           VecAdd(VecScale(@, factor2),
                                  VecScale(particles[otherParticle].vel, factor1))]
    /\ lane' = [lane EXCEPT ![l].pc = "merge74"]
    /\ UNCHANGED <<acVars, mvVars, toVars, hmVars, wVars, fVars, atDataCopy, merged, collisionFrame>>

\* mutant: the plain average of the two velocities, not weighted by energy
processingCollision_71_unweighted(l) ==
    /\ phase = "collision" /\ lane[l].pc = "merge71"
    /\ LET particle == Particle(l)
           otherParticle == lane[l].other
       IN  particles' = [particles EXCEPT ![particle].vel =
                           VecAdd(VecScale(@, <<1, 2>>),
                                  VecScale(particles[otherParticle].vel, <<1, 2>>))]
    /\ lane' = [lane EXCEPT ![l].pc = "merge74"]
    /\ UNCHANGED <<acVars, mvVars, toVars, hmVars, wVars, fVars, atDataCopy, merged, collisionFrame>>

\* line 71-73: factor1, factor2 and the new velocity
processingCollision_71(l) ==
    /\ phase = "collision" /\ lane[l].pc = "merge71"
    /\ LET particle == Particle(l)
           otherParticle == lane[l].other
           factor1 == RatDiv(RatInt(particles[particle].energy),
                             RatInt(particles[particle].energy + particles[otherParticle].energy))
           factor2 == RatSub(RatInt(1), factor1)
       IN  particles' = [particles EXCEPT ![particle].vel =
                           VecAdd(VecScale(@, factor1),
                                  VecScale(particles[otherParticle].vel, factor2))]
    /\ lane' = [lane EXCEPT ![l].pc = "merge74"]
    /\ UNCHANGED <<acVars, mvVars, toVars, hmVars, wVars, fVars, atDataCopy, merged, collisionFrame>>

\* mutant: the energy is assigned instead of added
processingCollision_74_assign(l) ==
    /\ phase = "collision" /\ lane[l].pc = "merge74"
    /\ particles' = [particles EXCEPT ![Particle(l)].energy = particles[lane[l].other].energy]
    /\ lane' = [lane EXCEPT ![l].pc = "merge75"]
    /\ UNCHANGED <<acVars, mvVars, toVars, hmVars, wVars, fVars, atDataCopy, merged, collisionFrame>>

\* line 74: atomicAdd(&particle->energy, otherParticle->energy)
processingCollision_74(l) ==
    /\ phase = "collision" /\ lane[l].pc = "merge74"
    /\ particles' = [particles EXCEPT ![Particle(l)].energy = @ + particles[lane[l].other].energy]
    /\ lane' = [lane EXCEPT ![l].pc = "merge75"]
    /\ UNCHANGED <<acVars, mvVars, toVars, hmVars, wVars, fVars, atDataCopy, merged, collisionFrame>>

\* mutant: the energy of the absorbed particle is left as it is
processingCollision_75_keepsEnergy(l) ==
    /\ phase = "collision" /\ lane[l].pc = "merge75"
    /\ lane' = [lane EXCEPT ![l].pc = "merge76"]
    /\ UNCHANGED <<acVars, mvVars, toVars, hmVars, wVars, fVars, atDataCopy, particles, merged, collisionFrame>>

\* line 75: atomicAdd(&otherParticle->energy, -otherParticle->energy)
processingCollision_75(l) ==
    /\ phase = "collision" /\ lane[l].pc = "merge75"
    /\ particles' = [particles EXCEPT ![lane[l].other].energy = @ + (-particles[lane[l].other].energy)]
    /\ lane' = [lane EXCEPT ![l].pc = "merge76"]
    /\ UNCHANGED <<acVars, mvVars, toVars, hmVars, wVars, fVars, atDataCopy, merged, collisionFrame>>

\* mutant: the flag is inverted instead of cleared
processingCollision_76_toggle(l) ==
    /\ phase = "collision" /\ lane[l].pc = "merge76"
    /\ particles' = [particles EXCEPT ![lane[l].other].alive = ~@]
    /\ lane' = [lane EXCEPT ![l].pc = "merge78"]
    /\ UNCHANGED <<acVars, mvVars, toVars, hmVars, wVars, fVars, atDataCopy, merged, collisionFrame>>

\* mutant: the absorbing particle is marked dead instead of the absorbed one
processingCollision_76_wrongParticle(l) ==
    /\ phase = "collision" /\ lane[l].pc = "merge76"
    /\ particles' = [particles EXCEPT ![Particle(l)].alive = FALSE]
    /\ lane' = [lane EXCEPT ![l].pc = "merge78"]
    /\ UNCHANGED <<acVars, mvVars, toVars, hmVars, wVars, fVars, atDataCopy, merged, collisionFrame>>

\* line 76: otherParticle->alive = false
processingCollision_76(l) ==
    /\ phase = "collision" /\ lane[l].pc = "merge76"
    /\ particles' = [particles EXCEPT ![lane[l].other].alive = FALSE]
    /\ lane' = [lane EXCEPT ![l].pc = "merge78"]
    /\ UNCHANGED <<acVars, mvVars, toVars, hmVars, wVars, fVars, atDataCopy, merged, collisionFrame>>

\* mutant: the merge ends without lock.releaseLock()
processingCollision_78_noRelease(l) ==
    /\ phase = "collision" /\ lane[l].pc = "merge78"
    /\ merged' = merged \cup {<<Particle(l), lane[l].other>>}
    /\ lane' = [lane EXCEPT ![l] = NextIteration(@)]
    /\ UNCHANGED <<acVars, mvVars, toVars, hmVars, wVars, fVars, atDataCopy, particles, collisionFrame>>

\* line 78: lock.releaseLock()
processingCollision_78(l) ==
    /\ phase = "collision" /\ lane[l].pc = "merge78"
    /\ particles' = DoubleLock_releaseLock(l)
    /\ merged' = merged \cup {<<Particle(l), lane[l].other>>}
    /\ lane' = [lane EXCEPT ![l] = NextIteration(@)]
    /\ UNCHANGED <<acVars, mvVars, toVars, hmVars, wVars, fVars, atDataCopy, collisionFrame>>

processingCollision_gridCall(l) ==
    \/ processingCollision_get(l)
    \/ processingCollision_alive1(l)
    \/ processingCollision_alive2(l)
    \/ DoubleLock_tryLock1(l)
    \/ DoubleLock_tryLock2(l)
    \/ DoubleLock_tryLockFailed(l)
    \/ processingCollision_isLocked(l)
    \/ processingCollision_71(l)
    \/ processingCollision_74(l)
    \/ processingCollision_75(l)
    \/ processingCollision_76(l)
    \/ processingCollision_78(l)

\* EntityFactory::createClusterWithRandomCell(energy, pos, vel): one new cell
createClusterWithRandomCell(energy, pos) ==
    Append(cells, [absPos |-> pos, energy |-> energy, alive |-> TRUE])

\* mutant: the particle is converted whatever its inner energy is
processingTransformation_gridCall_noThreshold(l) ==
    /\ phase = "transformation" /\ lane[l].pc = "loop"
    /\ LET particle == Particle(l)
           innerEnergy == RatSub(RatInt(particles[particle].energy),
                                 linearKineticEnergy(cellMass, particles[particle].vel))
       IN  \/ /\ cells' = createClusterWithRandomCell(innerEnergy, particles[particle].absPos)
              /\ particles' = [particles EXCEPT ![particle].alive = FALSE]
           \/ /\ UNCHANGED <<particles, cells>>
    /\ lane' = [lane EXCEPT ![l] = NextIteration(@)]
    /\ UNCHANGED <<acVars, mvVars, toVars, hmVars, wVars, fVars, atDataCopy, particlePointers, particleMap, cellMap, phase, timestep, atCollision, merged>>

\* processingTransformation_gridCall, one iteration (line 86-96)
processingTransformation_gridCall(l) ==
    /\ phase = "transformation" /\ lane[l].pc = "loop"
    /\ LET particle == Particle(l)
           innerEnergy == RatSub(RatInt(particles[particle].energy),
                                 linearKineticEnergy(cellMass, particles[particle].vel))
       IN  \/ /\ RatLeq(RatInt(cellMinEnergy), innerEnergy)
              \* numberGen.random() < cellTransformationProb
              /\ cells' = createClusterWithRandomCell(innerEnergy, particles[particle].absPos)
              /\ particles' = [particles EXCEPT ![particle].alive = FALSE]
           \/ \* innerEnergy < cellMinEnergy, or the random draw is not below the probability
              /\ UNCHANGED <<particles, cells>>
    /\ lane' = [lane EXCEPT ![l] = NextIteration(@)]
    /\ UNCHANGED <<acVars, mvVars, toVars, hmVars, wVars, fVars, atDataCopy, particlePointers, particleMap, cellMap, phase, timestep, atCollision, merged>>

\* mutant: the energy is added to the cell but the particle stays in the arena
processingDataCopy_gridCall_keepsAbsorbed(l) ==
    /\ phase = "dataCopy" /\ lane[l].pc = "loop"
    /\ LET particle == Particle(l)
           cell == cellMap_get(particles[particle].absPos)
       IN  IF ~particles[particle].alive
           THEN /\ particlePointers' = [particlePointers EXCEPT ![lane[l].index + 1] = 0]
                /\ UNCHANGED cells
           ELSE IF cell # 0 /\ cells[cell].alive
           THEN /\ cells' = [cells EXCEPT ![cell].energy =
                               RatAdd(@, RatInt(particles[particle].energy))]
                /\ UNCHANGED particlePointers
           ELSE UNCHANGED <<particlePointers, cells>>
    /\ lane' = [lane EXCEPT ![l] = NextIteration(@)]
    /\ UNCHANGED <<acVars, mvVars, toVars, hmVars, wVars, fVars, atDataCopy, particles, particleMap, cellMap, phase, timestep, atCollision, merged>>

\* mutant: the pointer of a dead particle is left in the array
processingDataCopy_gridCall_keepsDead(l) ==
    /\ phase = "dataCopy" /\ lane[l].pc = "loop"
    /\ LET particle == Particle(l)
           cell == cellMap_get(particles[particle].absPos)
       IN  IF ~particles[particle].alive
           THEN UNCHANGED <<particlePointers, cells>>
           ELSE IF cell # 0 /\ cells[cell].alive
           THEN /\ cells' = [cells EXCEPT ![cell].energy =
                               RatAdd(@, RatInt(particles[particle].energy))]
                /\ particlePointers' = [particlePointers EXCEPT ![lane[l].index + 1] = 0]
           ELSE UNCHANGED <<particlePointers, cells>>
    /\ lane' = [lane EXCEPT ![l] = NextIteration(@)]
    /\ UNCHANGED <<acVars, mvVars, toVars, hmVars, wVars, fVars, atDataCopy, particles, particleMap, cellMap, phase, timestep, atCollision, merged>>

\* processingDataCopy_gridCall, one iteration (line 103-115)
processingDataCopy_gridCall(l) ==
    /\ phase = "dataCopy" /\ lane[l].pc = "loop"
    /\ LET particle == Particle(l)
           cell == cellMap_get(particles[particle].absPos)
       IN  IF ~particles[particle].alive
           THEN /\ particlePointers' = [particlePointers EXCEPT ![lane[l].index + 1] = 0]
                /\ UNCHANGED cells
           ELSE IF cell # 0 /\ cells[cell].alive
           THEN /\ cells' = [cells EXCEPT ![cell].energy =
                               RatAdd(@, RatInt(particles[particle].energy))]
                /\ particlePointers' = [particlePointers EXCEPT ![lane[l].index + 1] = 0]
           ELSE UNCHANGED <<particlePointers, cells>>
    /\ lane' = [lane EXCEPT ![l] = NextIteration(@)]
    /\ UNCHANGED <<acVars, mvVars, toVars, hmVars, wVars, fVars, atDataCopy, particles, particleMap, cellMap, phase, timestep, atCollision, merged>>

(***************************************************************************)
(* The boundaries between the passes of one time step: every lane of a     *)
(* pass has finished before the next pass starts.                          *)
(***************************************************************************)
NumEntries == Len(particlePointers)

\* mutant: the map rebuild is launched without waiting for the movement pass
sync_movement_early ==
    /\ phase = "movement"
    /\ phase' = "updateMap"
    /\ particleMap' = [e \in MapEntries |-> 0]
    /\ cellMap' \in CellMapsOf(cells)
    /\ lane' = [l \in Lanes |-> init_gridCall(l, NumEntries)]
    /\ UNCHANGED <<acVars, mvVars, toVars, hmVars, wVars, fVars, atDataCopy, particles, particlePointers, cells, timestep, atCollision, merged>>

\* movement is complete; both maps are cleared for the rebuild
sync_movement ==
    /\ phase = "movement" /\ AllLanesAtEnd
    /\ phase' = "updateMap"
    /\ particleMap' = [e \in MapEntries |-> 0]
    /\ cellMap' \in CellMapsOf(cells)
    /\ lane' = [l \in Lanes |-> init_gridCall(l, NumEntries)]
    /\ UNCHANGED <<acVars, mvVars, toVars, hmVars, wVars, fVars, atDataCopy, particles, particlePointers, cells, timestep, atCollision, merged>>

sync_updateMap ==
    /\ phase = "updateMap" /\ AllLanesAtEnd
    /\ phase' = "collision"
    /\ atCollision' = particles
    /\ merged' = {}
    /\ lane' = [l \in Lanes |-> init_gridCall(l, NumEntries)]
    /\ UNCHANGED <<acVars, mvVars, toVars, hmVars, wVars, fVars, atDataCopy, particles, particlePointers, particleMap, cells, cellMap, timestep>>

sync_collision ==
    /\ phase = "collision" /\ AllLanesAtEnd
    /\ phase' = "transformation"
    /\ lane' = [l \in Lanes |-> init_gridCall(l, NumEntries)]
    /\ UNCHANGED <<acVars, mvVars, toVars, hmVars, wVars, fVars, atDataCopy, particles, particlePointers, particleMap, cells, cellMap, timestep,
                   atCollision, merged>>

sync_transformation ==
    /\ phase = "transformation" /\ AllLanesAtEnd
    /\ phase' = "dataCopy"
    /\ atDataCopy' = [particles |-> particles, particlePointers |-> particlePointers,
                      cells |-> cells]
    /\ lane' = [l \in Lanes |-> init_gridCall(l, NumEntries)]
    /\ UNCHANGED <<acVars, mvVars, toVars, hmVars, wVars, fVars, particles, particlePointers, particleMap, cells, cellMap, timestep,
                   atCollision, merged>>

\* the particle pointers that are not nullptr, in order
RECURSIVE Compact(_)
Compact(ptrs) ==
    IF ptrs = <<>> THEN <<>>
    ELSE IF Head(ptrs) = 0 THEN Compact(Tail(ptrs))
    ELSE <<Head(ptrs)>> \o Compact(Tail(ptrs))

\* the step is complete: the pointer array is compacted, the next step begins
sync_dataCopy ==
    /\ phase = "dataCopy" /\ AllLanesAtEnd
    /\ particlePointers' = Compact(particlePointers)
    /\ timestep' = timestep + 1
    /\ phase' = IF timestep + 1 < MaxSteps THEN "movement" ELSE "stopped"
    /\ lane' = [l \in Lanes |-> init_gridCall(l, Len(Compact(particlePointers)))]
    /\ UNCHANGED <<acVars, mvVars, toVars, hmVars, wVars, fVars, atDataCopy, particles, particleMap, cells, cellMap, atCollision, merged>>

LaneStep(l) ==
    \/ processingMovement_gridCall(l)
    \/ updateMap_gridCall(l)
    \/ processingCollision_gridCall(l)
    \/ processingTransformation_gridCall(l)
    \/ processingDataCopy_gridCall(l)

Sync ==
    \/ sync_movement
    \/ sync_updateMap
    \/ sync_collision
    \/ sync_transformation
    \/ sync_dataCopy

NextParticles ==
    \/ \E l \in Lanes : LaneStep(l)
    \/ Sync

SpecParticles == InitParticles /\ [][NextParticles]_vars

\* every lane of the grid keeps running, and the host launches the next pass
FairSpecParticles ==
    /\ SpecParticles
    /\ \A l \in Lanes : WF_vars(LaneStep(l))
    /\ WF_vars(Sync)


(***************************************************************************)
(* Claims about the hash map, checked under SpecHashMap.                   *)
(***************************************************************************)

\* C1: contains(k) is true after an insertOrAssign(k, v) has returned, and
\* at(k) returns the value of the latest insertOrAssign(k, _) (the value the
\* latest setValue for k wrote); neither call fails to return.
C1_InsertThenContainsAndAt ==
    \A t \in Threads :
        (th[t].op \in {"contains", "at"} /\ th[t].pre) =>
            /\ th[t].pc # "hang"
            /\ (th[t].pc = "done" /\ th[t].op = "contains") => th[t].result = TRUE
            /\ (th[t].pc = "done" /\ th[t].op = "at") =>
                   (th[t].result = th[t].expect /\ th[t].result \in Values)

\* C1 witness: an at(k) that had to probe past a slot of another key returned
\* the stored value of k, after an insertOrAssign(k, _) had returned.
C1_Witness ==
    \E t \in Threads :
        /\ th[t].pc = "done" /\ th[t].op = "at" /\ th[t].pre
        /\ th[t].result \in Values
        /\ th[t].dummy >= 2

\* C5: an insertOrAssign that respects the capacity (its key is stored, or
\* the stored and pending keys together with it fit the table), and an at of
\* a stored key, never enter the endless loop of line 37 / line 84.
C5_CallsWithinCapacityTerminate ==
    \A t \in Threads : th[t].respects => th[t].pc # "hang"

\* C6: for a key no insertOrAssign was ever called with, at returns Value()
\* and contains returns false, and neither ends in the endless loop.
C6_MissReturnsSentinel ==
    \A t \in Threads :
        (th[t].op \in {"contains", "at"} /\ th[t].key \notin everInserted) =>
            /\ th[t].pc # "hang"
            /\ (th[t].pc = "done" /\ th[t].op = "contains") => th[t].result = FALSE
            /\ (th[t].pc = "done" /\ th[t].op = "at") => th[t].result = DefaultValue

\* C7: a thread holds at most one slot lock, holds none when it requests a
\* lock (getLock) or starts the next probe step, and holds none once its call
\* has returned; the lock words agree with the holders.
C7_OneLockPerProbe ==
    /\ \A t \in Threads :
        /\ Cardinality(held[t]) <= 1
        /\ th[t].pc \in {"ins_loop", "ins_lock", "con_loop", "con_lock",
                         "at_loop", "at_lock", "done", "idle", "hang"} => held[t] = {}
    /\ \A t, u \in Threads : t # u => held[t] \cap held[u] = {}
    /\ \A i \in Slots : (_entries[i].locked = 1) <=> (\E t \in Threads : i \in held[t])

\* C7 witness: a thread waits for the lock of a slot another thread holds,
\* after it has itself locked and released an earlier slot.
C7_Witness ==
    \E t, u \in Threads :
        /\ t # u
        /\ th[t].pc \in {"ins_lock", "con_lock", "at_lock"}
        /\ th[t].index \in held[u]
        /\ th[t].index # _hash(th[t].key) % _size
        /\ held[t] = {}

(***************************************************************************)
(* Claims about the collision pass and the particle life cycle, checked    *)
(* under SpecParticles (C9 under FairSpecParticles).                       *)
(***************************************************************************)
MergePcs == {"merge71", "merge74", "merge75", "merge76"}
Pointed == {particlePointers[i] : i \in 1..Len(particlePointers)} \ {0}

\* C2: while a lane applies a merge of particle with otherParticle it holds
\* both locks, and both particles are alive.
C2_MergeOnlyLockedLivePairs ==
    \A l \in Lanes :
        (phase = "collision" /\ lane[l].pc \in MergePcs) =>
            /\ particles[Particle(l)].owner = l
            /\ particles[lane[l].other].owner = l
            /\ particles[Particle(l)].alive
            /\ particles[lane[l].other].alive

\* C3: when a merge is complete (line 78 is reached) the surviving particle has
\* the sum of the two energies read when the double lock was taken, and the
\* absorbed particle has energy 0 and is not alive.
C3_MergeConservesEnergy ==
    \A l \in Lanes :
        (phase = "collision" /\ lane[l].pc = "merge78") =>
            /\ particles[Particle(l)].energy = lane[l].pre[1] + lane[l].pre[2]
            /\ particles[lane[l].other].energy = 0
            /\ ~particles[lane[l].other].alive

\* C3 witness: a merge of two particles with positive energy is complete.
C3_Witness ==
    \E l \in Lanes :
        /\ phase = "collision" /\ lane[l].pc = "merge78"
        /\ lane[l].pre[1] > 0 /\ lane[l].pre[2] > 0
        /\ particles[Particle(l)].energy = lane[l].pre[1] + lane[l].pre[2]

\* the collision pass began with exactly two particles, of energy 4 and 6 and
\* velocity (1,0) and (-1,0), at the same map entry
Scenario2 ==
    /\ Len(particlePointers) = 2
    /\ \E a, b \in Pointed :
        /\ atCollision[a].energy = 4 /\ atCollision[a].vel = <<RatInt(1), RatInt(0)>>
        /\ atCollision[b].energy = 6 /\ atCollision[b].vel = <<RatInt(-1), RatInt(0)>>
        /\ atCollision[a].alive /\ atCollision[b].alive
        /\ mapEntry(atCollision[a].absPos) = mapEntry(atCollision[b].absPos)

CollisionDone == phase = "collision" /\ AllLanesAtEnd

\* C4: in scenario 2, when every lane has finished the collision pass, exactly
\* one particle is alive, with energy 10 and velocity (-1/5, 0).
C4_Scenario2 ==
    (CollisionDone /\ Scenario2) =>
        LET live == {i \in Pointed : particles[i].alive}
        IN  /\ Cardinality(live) = 1
            /\ \A i \in live :
                /\ particles[i].energy = 10
                /\ particles[i].vel = <<Rat(-1, 5), RatInt(0)>>

\* C4 witness: scenario 2 has run to the end of the collision pass.
C4_Witness ==
    /\ CollisionDone /\ Scenario2
    /\ \E i \in Pointed : particles[i].alive /\ particles[i].energy = 10

\* C8: a particle that is not alive is not alive after any step of any pass.
C8_DeadIsTerminal ==
    [][\A i \in DOMAIN particles : ~particles[i].alive => ~particles'[i].alive]_vars

\* C8 witness: a particle marked dead in the collision pass of the first step
\* is still there, dead, while the second step runs.
C8_Witness ==
    /\ timestep >= 1 /\ phase = "collision"
    /\ \E i \in DOMAIN particles : ~particles[i].alive /\ particles[i].energy = 0

\* C9: a lane whose double lock failed goes on to its next particle, leaves
\* every particle as it is and holds no lock; a lane that is not at the end of
\* the pass can always take a step; and every lane reaches the end of the
\* collision pass.
C9_CollisionNonBlocking ==
    /\ [][\A l \in Lanes :
            (phase = "collision" /\ lane[l].pc = "isLocked" /\ ~isLocked(l)
             /\ lane'[l] # lane[l]) =>
                (lane'[l] = NextIteration(lane[l]) /\ particles' = particles)]_vars
    /\ [](\A l \in Lanes :
            (phase = "collision" /\ lane[l].pc = "isLocked" /\ ~isLocked(l)) =>
                \A i \in DOMAIN particles : particles[i].owner # l)
    /\ [](\A l \in Lanes :
            (phase = "collision" /\ lane[l].pc # "end") =>
                ENABLED processingCollision_gridCall(l))
    /\ \A l \in Lanes : (phase = "collision") ~> (phase = "collision" /\ lane[l].pc = "end")

\* C9 witness: a double lock has failed and the lane is about to skip the pair.
C9_Witness ==
    \E l \in Lanes :
        /\ phase = "collision" /\ lane[l].pc = "isLocked" /\ ~isLocked(l)
        /\ particles[Particle(l)].alive

\* The collision pass run by one lane after another, each in index order:
\* the pairs it merges and the particles it marks dead.
RECURSIVE SequentialCollision(_, _, _)
SequentialCollision(i, dead, pairs) ==
    IF i > Len(particlePointers) THEN [dead |-> dead, pairs |-> pairs]
    ELSE LET particle == particlePointers[i]
             otherParticle == particleMap_get(atCollision[particle].absPos)
         IN  IF /\ otherParticle # 0 /\ otherParticle # particle
                /\ atCollision[particle].alive /\ particle \notin dead
                /\ atCollision[otherParticle].alive /\ otherParticle \notin dead
             THEN SequentialCollision(i + 1, dead \cup {otherParticle},
                                      pairs \cup {<<particle, otherParticle>>})
             ELSE SequentialCollision(i + 1, dead, pairs)

\* C10 as claimed: the pairs merged by the pass are those of the sequential
\* order, whatever the interleaving.
C10_MergedPairsOrderInsensitive ==
    CollisionDone => merged = SequentialCollision(1, {}, {}).pairs

\* C10 as amended: the particles alive after the pass are those of the
\* sequential order, whatever the interleaving.
C10_AliveSetOrderInsensitive ==
    CollisionDone =>
        {i \in Pointed : particles[i].alive}
            = {i \in Pointed : atCollision[i].alive} \ SequentialCollision(1, {}, {}).dead

\* C10 witness: the pass has ended after two lanes applied a merge with the
\* same otherParticle.
C10_Witness ==
    /\ CollisionDone
    /\ \E x, y \in merged : x # y /\ x[2] = y[2]

\* v1 * e1/(e1+e2) + v2 * e2/(e1+e2)
WeightedVelocity(v1, e1, v2, e2) ==
    VecAdd(VecScale(v1, Rat(e1, e1 + e2)), VecScale(v2, Rat(e2, e1 + e2)))

\* x lies between a and b
RatBetween(x, a, b) ==
    \/ RatLeq(a, x) /\ RatLeq(x, b)
    \/ RatLeq(b, x) /\ RatLeq(x, a)

\* C11: when a lane has computed the velocity of a merge (lines 71-73 done),
\* the surviving particle's velocity is v1*e1/(e1+e2) + v2*e2/(e1+e2), with
\* v1, v2 the velocities and e1, e2 the energies both particles had right
\* before the merge, and each coordinate lies between those of v1 and v2.
C11_MergeVelocityWeighted ==
    \A l \in Lanes :
        (phase = "collision" /\ lane[l].pc = "merge74") =>
            LET p == Particle(l)
                q == lane[l].other
                v1 == atCollision[p].vel
                v2 == atCollision[q].vel
            IN  /\ particles[q].vel = v2
                /\ lane[l].pre[1] + lane[l].pre[2] > 0
                /\ particles[p].energy = lane[l].pre[1]
                /\ particles[q].energy = lane[l].pre[2]
                /\ particles[p].vel = WeightedVelocity(v1, lane[l].pre[1], v2, lane[l].pre[2])
                /\ \A k \in 1..2 : RatBetween(particles[p].vel[k], v1[k], v2[k])

\* C11 witness: the velocity of a merge of two particles of positive energy
\* and different velocities has been computed and differs from both.
C11_Witness ==
    \E l \in Lanes :
        /\ phase = "collision" /\ lane[l].pc = "merge74"
        /\ lane[l].pre[1] > 0 /\ lane[l].pre[2] > 0
        /\ particles[Particle(l)].vel # atCollision[Particle(l)].vel
        /\ particles[Particle(l)].vel # atCollision[lane[l].other].vel

(***************************************************************************)
(* mapCorrection_Kernel as a function of its arguments (part_000, line     *)
(* 24-35).  int is IntBits wide.  The sum (pos % size) + size of line 26   *)
(* overflows when it exceeds IntMax; signed overflow is undefined, so the  *)
(* sum is then any int.                                                    *)
(***************************************************************************)
IntMin == -(2 ^ (IntBits - 1))
IntMax == 2 ^ (IntBits - 1) - 1
Ints == IntMin..IntMax

\* the values (p % s) + s can take in an int
mapCorrection_Kernel_sum(p, s) ==
    IF CRem(p, s) + s <= IntMax THEN {CRem(p, s) + s} ELSE Ints

Overflows(pos, sz) == \E k \in 1..2 : CRem(pos[k], sz[k]) + sz[k] > IntMax

\* the values mapCorrection_Kernel(int2&, int2 const&) can leave in pos
mapCorrection_Kernel_int2_outcomes(pos, sz) ==
    IF ~Overflows(pos, sz) THEN {mapCorrection_Kernel_int2(pos, sz)}
    ELSE {<<CRem(a, sz[1]), CRem(b, sz[2])>> :
            a \in mapCorrection_Kernel_sum(pos[1], sz[1]),
            b \in mapCorrection_Kernel_sum(pos[2], sz[2])}

\* the values mapCorrection_Kernel(double2&, int2 const&) can leave in pos
mapCorrection_Kernel_double2_outcomes(pos, sz) ==
    LET intPart == <<ToInt(pos[1]), ToInt(pos[2])>>
    IN  IF ~Overflows(intPart, sz) THEN {mapCorrection_Kernel_double2(pos, sz)}
        ELSE {<<RatAdd(RatInt(c[1]), RatSub(pos[1], RatInt(intPart[1]))),
                RatAdd(RatInt(c[2]), RatSub(pos[2], RatInt(intPart[2])))>> :
                c \in mapCorrection_Kernel_int2_outcomes(intPart, sz)}

\* the arguments explored: every int and every size for x, the edge values for y
Sizes == 1..IntMax
YSizes == {1, 2, IntMax}
YPositions == {IntMin, -1, 0, 1, IntMax}
\* continuous positions: the halves whose integer part is an int
Halves == {Rat(k, 2) : k \in (2 * IntMin)..(2 * IntMax + 1)}
YHalves == {Rat(k, 2) : k \in {2 * IntMin + 1, -3, -1, 0, 1, 2 * IntMax + 1}}

InitWrap ==
    /\ HashMapIdle
    /\ ParticlesIdle
    /\ CudaIdle
    /\ FacadeIdle
    /\ ArenaIdle
    /\ MovementIdle
    /\ TransferIdle
    /\ \E kind \in {"int2", "double2"} : \E sx \in Sizes, sy \in YSizes :
        \E pos \in IF kind = "int2" THEN Ints \X YPositions ELSE Halves \X YHalves :
            wrapCall = [kind |-> kind, size |-> <<sx, sy>>, pos |-> pos, orig |-> pos,
                        prev |-> pos, n |-> 0]

\* mapCorrection_Kernel(pos, size) on an int2, pos is changed in place
mapCorrection_Kernel_int2_call ==
    /\ wrapCall.kind = "int2" /\ wrapCall.n < MaxCalls
    /\ \E r \in mapCorrection_Kernel_int2_outcomes(wrapCall.pos, wrapCall.size) :
        wrapCall' = [wrapCall EXCEPT !.pos = r, !.prev = wrapCall.pos, !.n = @ + 1]
    /\ UNCHANGED <<acVars, mvVars, toVars, hmVars, pVars, fVars>>

\* mapCorrection_Kernel(pos, size) on a double2, pos is changed in place
mapCorrection_Kernel_double2_call ==
    /\ wrapCall.kind = "double2" /\ wrapCall.n < MaxCalls
    /\ \E r \in mapCorrection_Kernel_double2_outcomes(wrapCall.pos, wrapCall.size) :
        wrapCall' = [wrapCall EXCEPT !.pos = r, !.prev = wrapCall.pos, !.n = @ + 1]
    /\ UNCHANGED <<acVars, mvVars, toVars, hmVars, pVars, fVars>>

NextWrap ==
    \/ mapCorrection_Kernel_int2_call
    \/ mapCorrection_Kernel_double2_call

SpecWrap == InitWrap /\ [][NextWrap]_vars

(***************************************************************************)
(* Claims about the wraparound, checked under SpecWrap.                    *)
(***************************************************************************)
\* the sizes for which (pos % size) + size fits an int whatever pos is
SizeFits == \A k \in 1..2 : 2 * wrapCall.size[k] - 1 <= IntMax

\* C12 as claimed: for every int position and every size > 0, after
\* mapCorrection_Kernel each coordinate is ((p mod s) + s) mod s, lies in
\* [0, s) and is congruent to p modulo s.
C12_IntWrapEverySize ==
    (wrapCall.kind = "int2" /\ wrapCall.n = 1) =>
        \A k \in 1..2 :
            LET p == wrapCall.orig[k]
                s == wrapCall.size[k]
            IN  /\ wrapCall.pos[k] = p % s
                /\ wrapCall.pos[k] \in 0..(s - 1)
                /\ (wrapCall.pos[k] - p) % s = 0

\* C12 as amended: the same for every size s with 2s - 1 <= INT_MAX.
C12_IntWrapSizeFits ==
    (wrapCall.kind = "int2" /\ wrapCall.n = 1 /\ SizeFits) =>
        \A k \in 1..2 :
            LET p == wrapCall.orig[k]
                s == wrapCall.size[k]
            IN  /\ wrapCall.pos[k] = p % s
                /\ wrapCall.pos[k] \in 0..(s - 1)
                /\ (wrapCall.pos[k] - p) % s = 0

\* C12 witness: a negative x and a y beyond the size have been folded at once.
C12_Witness ==
    /\ wrapCall.kind = "int2" /\ wrapCall.n = 1 /\ SizeFits
    /\ wrapCall.orig[1] < 0 /\ wrapCall.orig[2] >= wrapCall.size[2]
    /\ wrapCall.pos[1] > 0 /\ wrapCall.pos[2] = 1

\* C13 as claimed: for every position and every size > 0, of either overload,
\* a second mapCorrection_Kernel leaves the position the first one produced.
C13_WrapIdempotentEverySize ==
    (wrapCall.n = 2) => wrapCall.pos = wrapCall.prev

\* C13 as amended: the same for every size s with 2s - 1 <= INT_MAX (and
\* continuous positions whose integer part is an int).
C13_WrapIdempotentSizeFits ==
    (wrapCall.n = 2 /\ SizeFits) => wrapCall.pos = wrapCall.prev

\* C13 witness: a continuous position with a negative fractional x was moved
\* by the first call and left alone by the second.
C13_Witness ==
    /\ wrapCall.kind = "double2" /\ wrapCall.n = 2 /\ SizeFits
    /\ RatLess(wrapCall.orig[1], RatInt(-1)) /\ wrapCall.orig[1][2] = 2
    /\ wrapCall.prev # wrapCall.orig
    /\ wrapCall.pos = wrapCall.prev

\* C14: for every continuous position and every size > 0, after
\* mapCorrection_Kernel(double2&, int2 const&) each coordinate lies in [0, s).
C14_ContinuousWrapInRange ==
    (wrapCall.kind = "double2" /\ wrapCall.n >= 1) =>
        \A k \in 1..2 :
            /\ RatLeq(RatInt(0), wrapCall.pos[k])
            /\ RatLess(wrapCall.pos[k], RatInt(wrapCall.size[k]))

(***************************************************************************)
(* Claims about the passes of a time step, checked under SpecParticles.    *)
(***************************************************************************)
\* the passes of a time step in their order; the pointer array is compacted
\* when the data copy pass is left
PhaseOrder ==
    {<<"movement", "updateMap">>, <<"updateMap", "collision">>,
     <<"collision", "transformation">>, <<"transformation", "dataCopy">>,
     <<"dataCopy", "movement">>, <<"dataCopy", "stopped">>}

\* C15: the pass changes only to the next pass of the fixed order movement,
\* map rebuild, collision, transformation, data copy (with compaction), and
\* only when every lane has finished the running pass; a step of a lane
\* belongs to the running pass and leaves the pass as it is.
C15_PhaseOrdering ==
    [][/\ (phase' # phase) =>
            /\ AllLanesAtEnd
            /\ <<phase, phase'>> \in PhaseOrder
            /\ (phase = "dataCopy") <=> (timestep' = timestep + 1)
            /\ (phase = "dataCopy") => \A i \in 1..Len(particlePointers') : particlePointers'[i] # 0
       /\ (phase' = phase) =>
            /\ timestep' = timestep
            /\ \A l \in Lanes : (lane'[l] # lane[l]) => lane[l].pc # "end"]_vars

\* C15 witness: the second time step has reached the end of its last pass
\* with a particle still in the arena.
C15_Witness ==
    /\ timestep = 1 /\ phase = "dataCopy" /\ AllLanesAtEnd
    /\ Pointed # {}

\* C16: while the collision pass or the data copy pass runs (the passes that
\* look up a map), every entry of the particle map and of the cell map that
\* is not nullptr refers to an entity whose position discretizes to that
\* entry; and no map is written while one of these passes runs.
C16_NoStaleMapEntries ==
    /\ [](phase \in {"collision", "dataCopy"} =>
            \A e \in MapEntries :
                /\ particleMap[e] # 0 => mapEntry(particles[particleMap[e]].absPos) = e
                /\ cellMap[e] # 0 => mapEntry(cells[cellMap[e]].absPos) = e)
    /\ [][(phase \in {"collision", "transformation", "dataCopy"}) =>
            (/\ particleMap' = particleMap /\ cellMap' = cellMap
             /\ \A i \in DOMAIN particles : (particles'[i].absPos = particles[i].absPos))]_vars

\* C16 witness: in the collision pass of the second time step a moving
\* particle is found by the lookup at its position.
C16_Witness ==
    /\ timestep = 1 /\ phase = "collision"
    /\ \E i \in Pointed :
        /\ particles[i].vel # <<RatInt(0), RatInt(0)>>
        /\ particleMap_get(particles[i].absPos) = i

\* scenario 1: the arena holds one particle, of energy 10 and at rest, and
\* there was no cell when the data copy pass began
Scenario1 ==
    /\ DOMAIN particles = {1}
    /\ particles[1].energy = 10
    /\ particles[1].vel = <<RatInt(0), RatInt(0)>>

\* the first time step is complete and the second has not changed anything yet
AfterOneStep == timestep = 1 /\ phase = "movement"

\* C17 as claimed: after one full step of scenario 1 the particle is alive, at
\* its initial position, and the particle map lookup there returns it.
C17_Scenario1StaysAlive ==
    (Scenario1 /\ AfterOneStep) =>
        /\ particles[1].alive
        /\ particles[1].absPos = ParticleAtRest(10).absPos
        /\ particleMap_get(ParticleAtRest(10).absPos) = 1

\* C17 as amended: after one full step of scenario 1 the particle is at its
\* initial position and the particle map lookup there returns it; it is
\* alive and in the arena unless the transformation pass converted it, and
\* then one cell of energy 10 exists at its position.
C17_Scenario1UnlessTransformed ==
    (Scenario1 /\ AfterOneStep) =>
        /\ particles[1].absPos = ParticleAtRest(10).absPos
        /\ particleMap_get(ParticleAtRest(10).absPos) = 1
        /\ \/ particles[1].alive /\ particlePointers = <<1>> /\ cells = <<>>
           \/ /\ ~particles[1].alive /\ particlePointers = <<>>
              /\ cells = <<[absPos |-> ParticleAtRest(10).absPos, energy |-> RatInt(10),
                            alive |-> TRUE]>>
              /\ RatLeq(RatInt(cellMinEnergy), RatInt(10))

\* C17 witness: scenario 1 has completed one step and the particle is alive.
C17_Witness ==
    /\ Scenario1 /\ AfterOneStep
    /\ particles[1].alive /\ particlePointers = <<1>>
    /\ particleMap_get(particles[1].absPos) = 1

\* the inner energy of particle i: energy minus linear kinetic energy
InnerEnergy(i) ==
    RatSub(RatInt(particles[i].energy), linearKineticEnergy(cellMass, particles[i].vel))

\* a step of the transformation pass converted particle i: i is marked dead,
\* one cell is appended, nothing else changes
Converted(i) ==
    /\ particles' = [particles EXCEPT ![i].alive = FALSE]
    /\ Len(cells') = Len(cells) + 1
    /\ SubSeq(cells', 1, Len(cells)) = cells
    /\ cells'[Len(cells')].alive

PointedAtDataCopy ==
    {atDataCopy.particlePointers[k] : k \in 1..Len(atDataCopy.particlePointers)} \ {0}

\* the live cell the data copy pass finds at the position of particle i, 0 if none
LiveCellAt(i) ==
    LET cell == cellMap_get(atDataCopy.particles[i].absPos)
    IN  IF cell # 0 /\ atDataCopy.cells[cell].alive THEN cell ELSE 0

\* the live particles the pass absorbs into cell c
AbsorbedInto(c) ==
    {i \in PointedAtDataCopy : atDataCopy.particles[i].alive /\ LiveCellAt(i) = c}

RECURSIVE SumEnergy(_)
SumEnergy(S) ==
    IF S = {} THEN 0
    ELSE LET i == CHOOSE j \in S : TRUE
         IN  atDataCopy.particles[i].energy + SumEnergy(S \ {i})

DataCopyDone == phase = "dataCopy" /\ AllLanesAtEnd

\* what C19 says of the cells and of the particles that are not absorbed:
\* every cell has gained the energies of the particles absorbed into it, once
\* each; a live particle with no live cell at its position is unchanged and
\* still in the arena
AbsorptionEnergy ==
    /\ Len(cells) = Len(atDataCopy.cells)
    /\ \A c \in 1..Len(cells) :
        cells[c].energy = RatAdd(atDataCopy.cells[c].energy, RatInt(SumEnergy(AbsorbedInto(c))))
    /\ \A i \in PointedAtDataCopy :
        (atDataCopy.particles[i].alive /\ LiveCellAt(i) = 0) =>
            (i \in Pointed /\ particles[i] = atDataCopy.particles[i])

PostCompaction == timestep >= 1 /\ phase \in {"movement", "stopped"}

\* the particles that were alive and not absorbed when the data copy pass ended
Survivors ==
    {i \in PointedAtDataCopy : atDataCopy.particles[i].alive /\ LiveCellAt(i) = 0}

\* C20: after the compaction of a step the pointer array names exactly the
\* particles that were alive and not absorbed, each of them once, and holds
\* no null entry.
C20_CompactionKeepsSurvivors ==
    PostCompaction =>
        /\ \A k \in 1..Len(particlePointers) : particlePointers[k] # 0
        /\ \A j, k \in 1..Len(particlePointers) :
            particlePointers[j] = particlePointers[k] => j = k
        /\ Pointed = Survivors

\* C20 witness: a step has been compacted in which a merged (dead) particle
\* and an absorbed particle were dropped and a live particle was kept.
C20_Witness ==
    /\ PostCompaction
    /\ \E i \in PointedAtDataCopy : ~atDataCopy.particles[i].alive /\ i \notin Pointed
    /\ \E i \in PointedAtDataCopy :
        atDataCopy.particles[i].alive /\ LiveCellAt(i) # 0 /\ i \notin Pointed
    /\ \E i \in PointedAtDataCopy : atDataCopy.particles[i].alive /\ i \in Pointed

(***************************************************************************)
(* CudaInitializer (ParticleProcessor.cuh, line 161-230)                   *)
(***************************************************************************)
MaxDevices == 3         \* at most this many devices are found
MaxInitCalls == 2       \* initCuda calls explored

\* compute capabilities <<major, minor>> a device may report
Capabilities == {<<3, 5>>, <<5, 0>>, <<5, 2>>, <<6, 1>>}
MinComputeCapability == 502

computeCapability(prop) == prop[1] * 100 + prop[2]

\* the loop over the devices from deviceNumber on (devices are numbered from
\* 0): <<result, highestComputeCapability>>
RECURSIVE HighestFrom(_, _, _, _)
HighestFrom(devices, deviceNumber, result, highest) ==
    IF deviceNumber >= Len(devices) THEN <<result, highest>>
    ELSE IF computeCapability(devices[deviceNumber + 1]) > highest
         THEN HighestFrom(devices, deviceNumber + 1, deviceNumber,
                          computeCapability(devices[deviceNumber + 1]))
         ELSE HighestFrom(devices, deviceNumber + 1, result, highest)

\* mutant: the last device found is returned
getDeviceNumberOfHighestComputeCapability_last(devices) ==
    IF Len(devices) < 1 THEN [thrown |-> "SystemRequirementNotMetException", result |-> -1]
    ELSE IF HighestFrom(devices, 0, 0, 0)[2] < MinComputeCapability
    THEN [thrown |-> "SystemRequirementNotMetException", result |-> -1]
    ELSE [thrown |-> "none", result |-> Len(devices) - 1]

\* getDeviceNumberOfHighestComputeCapability: the device number, or the
\* exception thrown
getDeviceNumberOfHighestComputeCapability(devices) ==
    IF Len(devices) < 1 THEN [thrown |-> "SystemRequirementNotMetException", result |-> -1]
    ELSE IF HighestFrom(devices, 0, 0, 0)[2] < MinComputeCapability
    THEN [thrown |-> "SystemRequirementNotMetException", result |-> -1]
    ELSE [thrown |-> "none", result |-> HighestFrom(devices, 0, 0, 0)[1]]

\* the devices cudaGetDeviceCount and cudaGetDeviceProperties may report
DeviceLists == UNION {[1..n -> Capabilities] : n \in 0..MaxDevices}

InitCudaInitializer ==
    /\ HashMapIdle
    /\ ParticlesIdle
    /\ WrapIdle
    /\ FacadeIdle
    /\ ArenaIdle
    /\ MovementIdle
    /\ TransferIdle
    /\ \E devices \in DeviceLists :
        cudaDevice = [devices |-> devices, device |-> -1, result |-> "none",
                      thrown |-> "none", calls |-> 0]

\* initCuda: CudaInitializer::init constructs the function-local static
\* instance on the first call that completes; the constructor sets the device
\* getDeviceNumberOfHighestComputeCapability returns.  cudaSetDevice may fail.
initCuda ==
    /\ cudaDevice.calls < MaxInitCalls
    /\ IF cudaDevice.device # -1
       THEN cudaDevice' = [cudaDevice EXCEPT !.calls = @ + 1, !.result = "none",
                                             !.thrown = "none"]
       ELSE LET deviceNumber ==
                    getDeviceNumberOfHighestComputeCapability(cudaDevice.devices)
            IN  IF deviceNumber.thrown # "none"
                THEN cudaDevice' = [cudaDevice EXCEPT !.calls = @ + 1, !.result = "none",
                                                      !.thrown = deviceNumber.thrown]
                ELSE \E result \in {"cudaSuccess", "cudaError"} :
                        cudaDevice' =
                            IF result # "cudaSuccess"
                            THEN [cudaDevice EXCEPT !.calls = @ + 1, !.result = result,
                                    !.thrown = "SystemRequirementNotMetException"]
                            ELSE [cudaDevice EXCEPT !.calls = @ + 1, !.result = result,
                                    !.thrown = "none", !.device = deviceNumber.result]
    /\ UNCHANGED <<acVars, mvVars, toVars, hmVars, pVars, wVars, _currentTimestep, entities, arraySize, accessTOSize,
                   selected, arrayResizeNeeded, devicePending, nextId, lastCall,
                   inspections, overflowAge>>

NextCudaInitializer == initCuda

SpecCudaInitializer == InitCudaInitializer /\ [][NextCudaInitializer]_vars

(***************************************************************************)
(* _CudaSimulationFacade (ParticleProcessor.cuh, line 232-676).  The        *)
(* kernels the facade launches and SimulationData are not part of the      *)
(* sources at hand; their effect on the entity array is modelled from the  *)
(* specification: an allocation beyond the capacity raises the resize      *)
(* signal instead of writing, and a resize copies the live entities into   *)
(* enlarged arrays and swaps.  Cells, particles and tokens are one entity  *)
(* array here; their capacities and transfer buffers are followed kind by  *)
(* kind under SpecTransfer.                                                *)
(***************************************************************************)
TimestepBits == 4       \* width of _currentTimestep
DefaultArraySize == 1   \* additional array size the constructor asks for
MaxArraySize == 10      \* the arrays are not enlarged beyond this capacity
MaxEntityId == 3        \* at most this many entities are ever created
MaxImport == 3          \* at most this many entities in one transfer object

TimestepModulus == 2 ^ TimestepBits
\* the timesteps a facade is constructed with or set to
Timesteps == {0, 5, TimestepModulus - 1}
CheckPeriod == 10

LiveSet(es) == {es[i] : i \in 1..Len(es)} \ {0}
NoDead(es) == \A i \in 1..Len(es) : es[i] # 0
FreshIds(first, n) == [i \in 1..n |-> first + i - 1]

\* the history of a public call: resizes counts the resizeArrays runs in it,
\* inspected and signal say whether automaticResizeArrays read the resize
\* signal and what isArrayResizeNeeded() was at that point,
\* repeated says that it resized and the call before it had resized too;
\* a call that has resized nothing, inspected nothing, imported nothing
Call(op) == [op |-> op, arg |-> 0, launched |-> TRUE, resizes |-> 0, inspected |-> FALSE,
             signal |-> FALSE,
             repeated |-> FALSE, imported |-> 0, outOfBounds |-> FALSE, truncated |-> FALSE]

\* SimulationData::shouldResize: the array cannot take the additional entities
shouldResize(es, sz, additional) == Len(es) + additional > sz

\* SimulationData::resizeEntitiesForCleanup: the capacity of the target array
resizeEntitiesForCleanup(es, sz, additional) ==
    IF 2 * (Len(es) + additional) > sz THEN 2 * (Len(es) + additional) ELSE sz

\* mutant: the arrays are swapped although nothing was copied
resizeArrays_noCopy(es, sz, additional) ==
    [entities |-> <<>>,
     arraySize |-> resizeEntitiesForCleanup(es, sz, additional),
     accessTOSize |-> resizeEntitiesForCleanup(es, sz, additional)]

\* mutant: the copy is appended to a target array that still holds a copy
resizeArrays_targetNotReset(es, sz, additional) ==
    [entities |-> IF Len(es) # 0 THEN Compact(es) \o Compact(es) ELSE es,
     arraySize |-> resizeEntitiesForCleanup(es, sz, additional),
     accessTOSize |-> resizeEntitiesForCleanup(es, sz, additional)]

\* resizeArrays(additionals) (line 638-676): the entity array, its capacity
\* and the capacity of the transfer buffers afterwards
resizeArrays(es, sz, additional) ==
    [entities |-> IF Len(es) # 0 THEN Compact(es) ELSE es,
     arraySize |-> resizeEntitiesForCleanup(es, sz, additional),
     accessTOSize |-> resizeEntitiesForCleanup(es, sz, additional)]

\* what the passes of one step do to the entity array: at most one entity
\* dies and is dropped by the compaction, at most one entity is created; a
\* creation that does not fit raises the resize signal instead
TimestepKernel(es, sz, kill, create) ==
    LET compacted == Compact(IF kill = 0 THEN es ELSE [es EXCEPT ![kill] = 0])
        fits == Len(compacted) < sz
    IN  [entities |-> IF create /\ fits THEN Append(compacted, nextId) ELSE compacted,
         overflow |-> create /\ ~fits]

InitFacade ==
    /\ HashMapIdle
    /\ ParticlesIdle
    /\ WrapIdle
    /\ CudaIdle
    /\ ArenaIdle
    /\ MovementIdle
    /\ TransferIdle
    /\ _currentTimestep \in Timesteps
    /\ entities = <<>>
    /\ arraySize = resizeArrays(<<>>, 0, DefaultArraySize).arraySize
    /\ accessTOSize = resizeArrays(<<>>, 0, DefaultArraySize).accessTOSize
    /\ selected = {}
    /\ arrayResizeNeeded = FALSE
    /\ devicePending = FALSE
    /\ nextId = 1
    /\ lastCall = [Call("_CudaSimulationFacade") EXCEPT !.launched = FALSE, !.resizes = 1]
    /\ inspections = <<>>
    /\ overflowAge = -1

\* the latest CheckPeriod entries of q
Latest(q) == IF Len(q) <= CheckPeriod THEN q ELSE SubSeq(q, Len(q) - CheckPeriod + 1, Len(q))

\* mutant: the resize runs whenever the signal is set
calcTimestep_everyStep ==
    \E kill \in 0..Len(entities), create \in BOOLEAN :
        /\ create => nextId <= MaxEntityId
        /\ LET kernel == TimestepKernel(entities, arraySize, kill, create)
               needed == arrayResizeNeeded \/ kernel.overflow
               inspected == _currentTimestep % CheckPeriod = 0
               resize == needed
               resized == resizeArrays(kernel.entities, arraySize, 0)
           IN  /\ resize => resized.arraySize <= MaxArraySize
               /\ entities' = IF resize THEN resized.entities ELSE kernel.entities
               /\ arraySize' = IF resize THEN resized.arraySize ELSE arraySize
               /\ accessTOSize' = IF resize THEN resized.accessTOSize ELSE accessTOSize
               /\ arrayResizeNeeded' = (needed /\ ~resize)
               /\ overflowAge' = IF ~(needed /\ ~resize) THEN -1
                                 ELSE IF arrayResizeNeeded THEN overflowAge + 1 ELSE 0
               /\ selected' = selected \cap LiveSet(kernel.entities)
               /\ nextId' = IF create /\ ~kernel.overflow THEN nextId + 1 ELSE nextId
               /\ inspections' = Latest(Append(inspections, <<_currentTimestep, inspected>>))
               /\ lastCall' = [Call("calcTimestep") EXCEPT
                                 !.inspected = inspected,
                                 !.signal = needed,
                                 !.resizes = IF resize THEN 1 ELSE 0]
        /\ devicePending' = FALSE
        /\ _currentTimestep' = (_currentTimestep + 1) % TimestepModulus
        /\ UNCHANGED <<acVars, mvVars, toVars, hmVars, pVars, wVars, cudaDevice>>

\* calcTimestep (line 303-310): the passes of the step, syncAndCheck,
\* automaticResizeArrays (line 628-636), ++_currentTimestep
calcTimestep ==
    \E kill \in 0..Len(entities), create \in BOOLEAN :
        /\ create => nextId <= MaxEntityId
        /\ LET kernel == TimestepKernel(entities, arraySize, kill, create)
               needed == arrayResizeNeeded \/ kernel.overflow
               inspected == _currentTimestep % CheckPeriod = 0
               resize == inspected /\ needed
               resized == resizeArrays(kernel.entities, arraySize, 0)
           IN  /\ resize => resized.arraySize <= MaxArraySize
               /\ entities' = IF resize THEN resized.entities ELSE kernel.entities
               /\ arraySize' = IF resize THEN resized.arraySize ELSE arraySize
               /\ accessTOSize' = IF resize THEN resized.accessTOSize ELSE accessTOSize
               /\ arrayResizeNeeded' = (needed /\ ~resize)
               /\ overflowAge' = IF ~(needed /\ ~resize) THEN -1
                                 ELSE IF arrayResizeNeeded THEN overflowAge + 1 ELSE 0
               /\ selected' = selected \cap LiveSet(kernel.entities)
               /\ nextId' = IF create /\ ~kernel.overflow THEN nextId + 1 ELSE nextId
               /\ inspections' = Latest(Append(inspections, <<_currentTimestep, inspected>>))
               /\ lastCall' = [Call("calcTimestep") EXCEPT
                                 !.inspected = inspected,
                                 !.signal = needed,
                                 !.resizes = IF resize THEN 1 ELSE 0]
        /\ devicePending' = FALSE
        /\ _currentTimestep' = (_currentTimestep + 1) % TimestepModulus
        /\ UNCHANGED <<acVars, mvVars, toVars, hmVars, pVars, wVars, cudaDevice>>

\* mutant: the timestep handed in is not stored
setCurrentTimestep_ignored ==
    \E t \in Timesteps :
        /\ lastCall' = [Call("setCurrentTimestep") EXCEPT !.arg = t, !.launched = FALSE]
        /\ inspections' = <<>>
        /\ overflowAge' = IF arrayResizeNeeded THEN 0 ELSE -1
        /\ UNCHANGED <<acVars, mvVars, toVars, hmVars, pVars, wVars, cudaDevice, _currentTimestep, entities, arraySize,
                       accessTOSize, selected, arrayResizeNeeded, devicePending, nextId>>

\* setCurrentTimestep(timestep) (line 555-558)
setCurrentTimestep ==
    \E t \in Timesteps :
        /\ _currentTimestep' = t
        /\ lastCall' = [Call("setCurrentTimestep") EXCEPT !.arg = t, !.launched = FALSE]
        /\ inspections' = <<>>
        /\ overflowAge' = IF arrayResizeNeeded THEN 0 ELSE -1
        /\ UNCHANGED <<acVars, mvVars, toVars, hmVars, pVars, wVars, cudaDevice, entities, arraySize, accessTOSize,
                       selected, arrayResizeNeeded, devicePending, nextId>>

\* getCurrentTimestep (line 550-553)
getCurrentTimestep == _currentTimestep

\* mutant: the arrays are never enlarged
resizeArraysIfNecessary_never(es, sz, to, additional) ==
    [entities |-> es, arraySize |-> sz, accessTOSize |-> to, resizes |-> 0]

\* resizeArraysIfNecessary(additionals) (line 588-594)
resizeArraysIfNecessary(es, sz, to, additional) ==
    IF shouldResize(es, sz, additional)
    THEN [entities |-> resizeArrays(es, sz, additional).entities,
          arraySize |-> resizeArrays(es, sz, additional).arraySize,
          accessTOSize |-> resizeArrays(es, sz, additional).accessTOSize,
          resizes |-> 1]
    ELSE [entities |-> es, arraySize |-> sz, accessTOSize |-> to, resizes |-> 0]

\* the resize signal after a call that left it at flag
Aged(flag) == IF ~flag THEN -1 ELSE IF arrayResizeNeeded THEN overflowAge ELSE 0

\* resizeArraysIfNecessary called on its own
resizeArraysIfNecessary_call ==
    \E additional \in 0..MaxImport :
        LET r == resizeArraysIfNecessary(entities, arraySize, accessTOSize, additional)
        IN  /\ r.arraySize <= MaxArraySize
            /\ entities' = r.entities
            /\ arraySize' = r.arraySize
            /\ accessTOSize' = r.accessTOSize
            /\ arrayResizeNeeded' = (arrayResizeNeeded /\ r.resizes = 0)
            /\ overflowAge' = Aged(arrayResizeNeeded /\ r.resizes = 0)
            /\ devicePending' = (devicePending /\ (r.resizes = 0 \/ Len(entities) = 0))
            /\ lastCall' = [Call("resizeArraysIfNecessary") EXCEPT
                              !.launched = (r.resizes = 1 /\ Len(entities) # 0),
                              !.resizes = r.resizes,
                              !.repeated = (r.resizes = 1 /\ lastCall.resizes = 1)]
            /\ UNCHANGED <<acVars, mvVars, toVars, hmVars, pVars, wVars, cudaDevice, _currentTimestep, selected,
                           nextId, inspections>>

ImportOperations == {"addAndSelectSimulationData", "setSimulationData"}

\* an import of n entities: the caller makes room with resizeArraysIfNecessary
\* and then calls addAndSelectSimulationData (line 391-397) or
\* setSimulationData (line 399-405); copyDataTOtoDevice (line 602-613) writes
\* the n records into the transfer buffers
importOperation ==
    \E op \in ImportOperations, n \in 1..MaxImport :
        LET r == resizeArraysIfNecessary(entities, arraySize, accessTOSize, n)
            kept == IF op = "setSimulationData" THEN <<>> ELSE r.entities
            fits == Len(kept) + n <= r.arraySize
            flag == (arrayResizeNeeded /\ r.resizes = 0) \/ ~fits
        IN  /\ nextId + n - 1 <= MaxEntityId
            /\ r.arraySize <= MaxArraySize
            /\ entities' = IF fits THEN kept \o FreshIds(nextId, n) ELSE kept
            /\ selected' = IF op = "setSimulationData" THEN {}
                           ELSE IF fits THEN nextId..(nextId + n - 1) ELSE {}
            /\ nextId' = IF fits THEN nextId + n ELSE nextId
            /\ arraySize' = r.arraySize
            /\ accessTOSize' = r.accessTOSize
            /\ arrayResizeNeeded' = flag
            /\ overflowAge' = Aged(flag)
            /\ devicePending' = FALSE
            /\ lastCall' = [Call(op) EXCEPT !.resizes = r.resizes, !.imported = n,
                              !.outOfBounds = (n > r.accessTOSize), !.truncated = ~fits]
            /\ UNCHANGED <<acVars, mvVars, toVars, hmVars, pVars, wVars, cudaDevice, _currentTimestep, inspections>>

\* clear (line 582-586)
clear ==
    /\ entities' = <<>>
    /\ selected' = {}
    /\ devicePending' = FALSE
    /\ lastCall' = Call("clear")
    /\ UNCHANGED <<acVars, mvVars, toVars, hmVars, pVars, wVars, cudaDevice, _currentTimestep, arraySize,
                   accessTOSize, arrayResizeNeeded, nextId, inspections, overflowAge>>

\* the export operations getSimulationData, getSelectedSimulationData,
\* getInspectedSimulationData, getOverlayData (line 344-389) and getMonitorData
\* (line 526-548): one pass, syncAndCheck, copy to the host;
\* getInspectedSimulationData returns at once when it is given more than
\* Const::MaxInspectedEntities ids
exportOperation ==
    \E tooMany \in BOOLEAN :
        /\ devicePending' = (devicePending /\ tooMany)
        /\ lastCall' = [Call("exportOperation") EXCEPT !.launched = ~tooMany]
        /\ UNCHANGED <<acVars, mvVars, toVars, hmVars, pVars, wVars, cudaDevice, _currentTimestep, entities, arraySize,
                       accessTOSize, selected, arrayResizeNeeded, nextId, inspections,
                       overflowAge>>

\* the editing and selection operations that end with syncAndCheck (line
\* 407-466, 473-508): one pass, then syncAndCheck.  removeSelectedEntities,
\* removeSelection, switchSelection and swapSelection change the entities or
\* the selection; relaxSelectedEntities, uniformVelocitiesForSelectedEntities,
\* makeSticky, removeStickiness, setBarrier, changeInspectedSimulationData,
\* applyForce, getSelectionShallowData, shallowUpdateSelectedEntities,
\* updateSelection, colorSelectedEntities and reconnectSelectedEntities change
\* attributes that are not part of the state here
EditOperations == {"removeSelectedEntities", "removeSelection", "switchSelection",
                   "swapSelection", "otherEditOperation"}

editOperation ==
    \E op \in EditOperations, e \in LiveSet(entities) \cup {0} :
        /\ e # 0 <=> op \in {"switchSelection", "swapSelection"}
        /\ entities' = IF op = "removeSelectedEntities"
                       THEN [i \in 1..Len(entities) |->
                                IF entities[i] \in selected THEN 0 ELSE entities[i]]
                       ELSE entities
        /\ selected' = CASE op \in {"removeSelectedEntities", "removeSelection"} -> {}
                         [] op = "switchSelection" -> {e}
                         [] op = "swapSelection" -> (selected \ {e}) \cup ({e} \ selected)
                         [] OTHER -> selected
        /\ devicePending' = FALSE
        /\ lastCall' = Call("editOperation")
        /\ UNCHANGED <<acVars, mvVars, toVars, hmVars, pVars, wVars, cudaDevice, _currentTimestep, arraySize,
                       accessTOSize, arrayResizeNeeded, nextId, inspections, overflowAge>>

\* setSelection (line 468-471): the pass is launched, nothing waits for it
setSelection ==
    \E area \in SUBSET LiveSet(entities) :
        /\ selected' = area
        /\ devicePending' = TRUE
        /\ lastCall' = Call("setSelection")
        /\ UNCHANGED <<acVars, mvVars, toVars, hmVars, pVars, wVars, cudaDevice, _currentTimestep, entities, arraySize,
                       accessTOSize, arrayResizeNeeded, nextId, inspections, overflowAge>>

NextFacade ==
    \/ calcTimestep
    \/ setCurrentTimestep
    \/ resizeArraysIfNecessary_call
    \/ importOperation
    \/ clear
    \/ exportOperation
    \/ editOperation
    \/ setSelection

SpecFacade == InitFacade /\ [][NextFacade]_vars

\* the caller keeps calling
FairSpecFacade == SpecFacade /\ WF_vars(NextFacade)

(***************************************************************************)
(* Claims about the facade, checked under SpecFacade.                      *)
(***************************************************************************)
\* C21: a resize that follows a call that had resized finds a live-only array
\* and leaves it as it is: the same live entities, the same count, no dead
\* entry.
C21_CompactionIdempotent ==
    [][lastCall'.repeated =>
        /\ NoDead(entities) /\ NoDead(entities')
        /\ LiveSet(entities') = LiveSet(entities)
        /\ Len(entities') = Len(entities)]_vars

\* C21 witness: the copy of a resize has run a second time on an array of two
\* live entities.
C21_Witness == lastCall.repeated /\ Len(entities) >= 2

\* C24 as claimed: every calcTimestep call leaves getCurrentTimestep() one
\* greater than it was, and getCurrentTimestep() is t right after
\* setCurrentTimestep(t).
C24_TimestepPlusOne ==
    [][/\ lastCall'.op = "calcTimestep" => _currentTimestep' = _currentTimestep + 1
       /\ lastCall'.op = "setCurrentTimestep" => _currentTimestep' = lastCall'.arg]_vars

\* C24 as amended: every calcTimestep call leaves getCurrentTimestep() one
\* greater than it was modulo the width of the counter (the greatest value is
\* followed by 0), and getCurrentTimestep() is t right after
\* setCurrentTimestep(t).
C24_TimestepPlusOneModulo ==
    [][/\ lastCall'.op = "calcTimestep" =>
            _currentTimestep' = (_currentTimestep + 1) % TimestepModulus
       /\ lastCall'.op = "setCurrentTimestep" => _currentTimestep' = lastCall'.arg]_vars

\* C24 witness: a calcTimestep call has taken the counter from its greatest
\* value to 0.
C24_Witness ==
    /\ lastCall.op = "calcTimestep"
    /\ getCurrentTimestep = 0
    /\ inspections # <<>> /\ inspections[Len(inspections)] = <<TimestepModulus - 1, FALSE>>

\* the calls among the latest CheckPeriod calcTimestep calls that inspected
\* the resize signal
InspectingCalls == {i \in 1..Len(inspections) : inspections[i][2]}

\* the counter wrapped around within the latest CheckPeriod calcTimestep calls
WrappedInWindow ==
    \E i \in 1..(Len(inspections) - 1) : inspections[i + 1][1] < inspections[i][1]

\* what C25 says of one calcTimestep call and of a raised signal: the call
\* resizes exactly if it inspects the signal and finds it set, and a raised
\* signal is not left standing for CheckPeriod further calls
ResizeFollowsInspection ==
    /\ lastCall.op = "calcTimestep" =>
        (lastCall.resizes = 1 <=> (lastCall.inspected /\ lastCall.signal))
    /\ overflowAge < CheckPeriod

C26_ResizeKeepsLiveEntities ==
    [][/\ (lastCall'.op = "resizeArraysIfNecessary" /\ lastCall'.resizes = 1) =>
            /\ LiveSet(entities') = LiveSet(entities)
            /\ Len(entities) = 0 => entities' = entities
            /\ selected' = selected
       /\ arraySize' >= arraySize
       /\ accessTOSize' >= accessTOSize]_vars

\* C26 witness: a resize has enlarged the arrays of a simulation in which two
\* of the three entities created are alive.
C26_Witness ==
    /\ lastCall.op = "resizeArraysIfNecessary" /\ lastCall.resizes = 1
    /\ Cardinality(LiveSet(entities)) = 2
    /\ nextId = MaxEntityId + 1
    /\ arraySize > Len(entities) + 1

C28_OperationsSynchronous == lastCall.launched => ~devicePending

(***************************************************************************)
(* Claims about the start-up, checked under SpecCudaInitializer.           *)
(***************************************************************************)
\* the compute capabilities of the devices found
FoundCapabilities ==
    {computeCapability(cudaDevice.devices[i]) : i \in 1..Len(cudaDevice.devices)}

\* no device is found, or none of compute capability 5.2 or higher
NoCompatibleDevice == \A c \in FoundCapabilities : c < MinComputeCapability

\* the device that is set has the highest compute capability of all
HighestIsSet ==
    /\ cudaDevice.device \in 0..(Len(cudaDevice.devices) - 1)
    /\ \A c \in FoundCapabilities :
        c <= computeCapability(cudaDevice.devices[cudaDevice.device + 1])

NumWorkGroups == 3      \* work-groups allocating from the arena
MaxRequest == 2         \* a work-group asks for 1..MaxRequest entries
MaxArenaSize == 4       \* capacities 1..MaxArenaSize are explored

WorkGroups == 1..NumWorkGroups

\* an add that is not atomic: the counter is overwritten without being read
atomicAdd_lostUpdate(counter, val) == [old |-> 0, new |-> val]

\* atomicAdd(address, val): adds val to the counter and returns its old value
atomicAdd(counter, val) == [old |-> counter, new |-> counter + val]

\* ArrayController::getArrayKernel(size): the shared counter is incremented by
\* the requested count, the array begins at the old count; a range that ends
\* beyond the capacity raises the overflow flag
getArrayKernel(ac, n) ==
    LET added == atomicAdd(ac.numEntries, n)
    IN  [ac |-> [ac EXCEPT !.numEntries = added.new,
                           !.overflow = @ \/ (added.new > ac.size)],
         oldIndex |-> added.old]

\* ArrayController::getElementKernel(): an array of one entry
getElementKernel(ac) == getArrayKernel(ac, 1)

InitArena ==
    /\ HashMapIdle
    /\ ParticlesIdle
    /\ WrapIdle
    /\ CudaIdle
    /\ FacadeIdle
    /\ MovementIdle
    /\ TransferIdle
    /\ \E capacity \in 1..MaxArenaSize, requests \in [WorkGroups -> 1..MaxRequest] :
        /\ arena = [numEntries |-> 0, size |-> capacity, overflow |-> FALSE]
        /\ wg = [w \in WorkGroups |-> [pc |-> "start", n |-> requests[w], oldIndex |-> -1]]

\* thread 0 of work-group w: newCells = data.cellsAC2.getArrayKernel(n)
allocate(w) ==
    /\ wg[w].pc = "start"
    /\ LET got == getArrayKernel(arena, wg[w].n)
       IN  /\ arena' = got.ac
           /\ wg' = [wg EXCEPT ![w] = [pc |-> "done", n |-> @.n, oldIndex |-> got.oldIndex]]
    /\ UNCHANGED <<hmVars, pVars, wVars, fVars, mvVars, toVars>>

NextArena == \E w \in WorkGroups : allocate(w)

SpecArena == InitArena /\ [][NextArena]_vars

\* the work-groups whose allocation has returned
Granted == {w \in DOMAIN wg : wg[w].pc = "done"}

\* the index range work-group w was given
Range(w) == wg[w].oldIndex..(wg[w].oldIndex + wg[w].n - 1)

RECURSIVE SumRequests(_)
\* the sum of the requested sizes of the work-groups in ws
SumRequests(ws) ==
    IF ws = {} THEN 0
    ELSE LET w == CHOOSE x \in ws : TRUE IN wg[w].n + SumRequests(ws \ {w})

\* C23: the work-groups that allocated concurrently from one arena were given
\* pairwise disjoint index ranges, the arena's count is the sum of the
\* requested sizes, and every allocation returned a range, the overflow flag
\* being set exactly if some range ends beyond the capacity.
C23_ConcurrentAllocation ==
    /\ \A v, w \in Granted : v # w => Range(v) \cap Range(w) = {}
    /\ \A w \in Granted : wg[w].oldIndex >= 0
    /\ arena.numEntries = SumRequests(Granted)
    /\ arena.overflow <=> \E w \in Granted : wg[w].oldIndex + wg[w].n > arena.size

\* C23 witness: all work-groups have allocated, one of them was given a range
\* within the capacity and another one a range beyond it, and the flag is set.
C23_Witness ==
    /\ Granted = WorkGroups
    /\ arena.overflow
    /\ \E w \in Granted : wg[w].oldIndex + wg[w].n <= arena.size
    /\ \E w \in Granted : wg[w].oldIndex + wg[w].n > arena.size

(***************************************************************************)
(* movement_Kernel (part_000, line 110-195): one block per cluster copies  *)
(* the cluster and its cells from the arenas clustersAC1, cellsAC1 into    *)
(* clustersAC2, cellsAC2.  A pointer is <<arena, index>>; positions are    *)
(* exact rationals; angles are multiples of 90 degrees, for which the sine *)
(* and the cosine are exact.                                               *)
(***************************************************************************)
MapSize == 4            \* data.size is MapSize x MapSize
LAYERS == 2             \* layers of the cell map
NumBlocks == 2          \* gridDim.x
BlockDim == 2           \* blockDim.x
MaxKernelRuns == 2      \* launches of movement_Kernel explored

Blocks == 0..(NumBlocks - 1)
ThreadIdx == 0..(BlockDim - 1)
mapSize == <<MapSize, MapSize>>
NullPtr == <<0, 0>>

\* the arena that is data.clustersAC2 and data.cellsAC2
NextArenaIndex == 3 - current

BlankCell == [relPos |-> <<RatInt(0), RatInt(0)>>, absPos |-> <<RatInt(0), RatInt(0)>>,
              cluster |-> NullPtr, nextTimestep |-> NullPtr,
              numConnections |-> 0, connections |-> <<>>]
BlankCluster == [numCells |-> 0, cells |-> NullPtr, angle |-> 0, angularVel |-> 0,
                 pos |-> <<RatInt(0), RatInt(0)>>, vel |-> <<RatInt(0), RatInt(0)>>]

\* *ptr for a CellCuda* and a ClusterCuda*
CellAt(ptr) == cellsAC[ptr[1]].data[ptr[2] + 1]
ClusterAt(ptr) == clustersAC[ptr[1]].data[ptr[2] + 1]

\* ptr + k
PtrAdd(ptr, k) == <<ptr[1], ptr[2] + k>>

\* tiling_Kernel(numEntities, division, numDivisions, startIndex, endIndex)
tiling_Kernel(numEntities, division, numDivisions) ==
    calcPartition(numEntities, division, numDivisions)

\* angleCorrection_Kernel(int& angle)
angleCorrection_Kernel(angle) == CRem(CRem(angle, 360) + 360, 360)

\* __sinf(angle*DEG_TO_RAD) and __cosf(angle*DEG_TO_RAD) for a multiple of 90
sinDeg(angle) ==
    LET a == angleCorrection_Kernel(angle)
    IN  IF a = 90 THEN 1 ELSE IF a = 270 THEN -1 ELSE 0
cosDeg(angle) ==
    LET a == angleCorrection_Kernel(angle)
    IN  IF a = 0 THEN 1 ELSE IF a = 180 THEN -1 ELSE 0

\* rotMatrix of line 127-132
rotMatrixOf(angle) ==
    <<<<RatInt(cosDeg(angle)), RatInt(sinDeg(angle))>>,
      <<RatInt(-sinDeg(angle)), RatInt(cosDeg(angle))>>>>

\* absPos of line 144-146: relPos rotated by rotMatrix, moved by cluster.pos
absPosOf(relPos, rotMatrix, pos) ==
    <<RatAdd(RatAdd(RatMul(relPos[1], rotMatrix[1][1]), RatMul(relPos[2], rotMatrix[1][2])), pos[1]),
      RatAdd(RatAdd(RatMul(relPos[1], rotMatrix[2][1]), RatMul(relPos[2], rotMatrix[2][2])), pos[2])>>

\* the lowest of a nonempty set of layers
FirstLayer(layers) == CHOOSE i \in layers : \A j \in layers : i <= j

\* mutant: only the lowest layer of the grid cell is looked at
readCellMapHelper_Kernel_lowestLayer(posInt, cluster, map, sz) ==
    LET pos == mapCorrection_Kernel_int2(posInt, sz)
        entry == pos[1] + pos[2] * sz[1]
    IN  IF map[entry + 1] # NullPtr /\ CellAt(map[entry + 1]).cluster # cluster
        THEN map[entry + 1] ELSE NullPtr

\* readCellMapHelper_Kernel(posInt, cluster, map, size): the cell of the lowest
\* layer at the wrapped posInt that belongs to another cluster, or nullptr
readCellMapHelper_Kernel(posInt, cluster, map, sz) ==
    LET pos == mapCorrection_Kernel_int2(posInt, sz)
        entry == pos[1] + pos[2] * sz[1]
        slice == sz[1] * sz[2]
        found == {i \in 0..(LAYERS - 1) :
                    /\ map[entry + i * slice + 1] # NullPtr
                    /\ CellAt(map[entry + i * slice + 1]).cluster # cluster}
    IN  IF found = {} THEN NullPtr ELSE map[entry + FirstLayer(found) * slice + 1]

\* the positions readCellMap_Kernel hands to readCellMapHelper_Kernel, in the
\* order of line 69-106
readCellMap_Kernel_probes(posInt) ==
    LET p1 == <<posInt[1] - 1, posInt[2] - 1>>     \* --posInt.x; --posInt.y;
        p2 == <<p1[1] + 1, p1[2]>>                 \* ++posInt.x;
        p3 == <<p2[1] + 1, p2[2]>>                 \* ++posInt.x;
        p4 == <<p3[1] - 2, p3[2] + 1>>             \* ++posInt.y; posInt.x -= 2;
        p5 == <<p4[1], p4[2] + 1>>                 \* ++posInt.y;
        p6 == <<p5[1], p5[2] + 1>>                 \* ++posInt.y;
        p7 == <<p6[1] - 2, p6[2] + 1>>             \* ++posInt.y; posInt.x -= 2;
        p8 == <<p7[1], p7[2] + 1>>                 \* ++posInt.y;
        p9 == <<p8[1], p8[2] + 1>>                 \* ++posInt.y;
    IN  <<p1, p2, p3, p4, p5, p6, p7, p8, p9>>

\* readCellMap_Kernel(posInt, cluster, map, size): the first cell a probe finds
readCellMap_Kernel(posInt, cluster, map, sz) ==
    LET probes == readCellMap_Kernel_probes(posInt)
        hits == {k \in 1..Len(probes) :
                    readCellMapHelper_Kernel(probes[k], cluster, map, sz) # NullPtr}
    IN  IF hits = {} THEN NullPtr
        ELSE readCellMapHelper_Kernel(probes[FirstLayer(hits)], cluster, map, sz)

\* the cells whose cluster pointer readCellMapHelper_Kernel reads: those of
\* the layers up to the first that holds a cell of another cluster
readCellMapHelper_Kernel_cellsRead(posInt, cluster, map, sz) ==
    LET pos == mapCorrection_Kernel_int2(posInt, sz)
        entry == pos[1] + pos[2] * sz[1]
        slice == sz[1] * sz[2]
        other(i) == /\ map[entry + i * slice + 1] # NullPtr
                    /\ CellAt(map[entry + i * slice + 1]).cluster # cluster
    IN  {map[entry + i * slice + 1] :
            i \in {j \in 0..(LAYERS - 1) : \A k \in 0..(j - 1) : ~other(k)}} \ {NullPtr}

\* the cells whose cluster pointer readCellMap_Kernel reads: those of the
\* probes up to the first that finds a cell
readCellMap_Kernel_cellsRead(posInt, cluster, map, sz) ==
    LET probes == readCellMap_Kernel_probes(posInt)
        made == {k \in 1..Len(probes) :
                    \A j \in 1..(k - 1) :
                        readCellMapHelper_Kernel(probes[j], cluster, map, sz) = NullPtr}
    IN  UNION {readCellMapHelper_Kernel_cellsRead(probes[k], cluster, map, sz) : k \in made}

\* the map entry (layer 0) of a cell's position
cellMapEntry(absPos, sz) ==
    LET pos == mapCorrection_Kernel_int2(<<ToInt(absPos[1]), ToInt(absPos[2])>>, sz)
    IN  pos[1] + pos[2] * sz[1]

RECURSIVE setCells(_, _, _, _)
\* the map after the cells 0..(n - 1) of arena g were entered one after the
\* other, each in the lowest free layer of the entry of its position; a cell
\* that finds all layers of its entry taken is not entered
setCells(map, g, n, sz) ==
    IF n = 0 THEN map
    ELSE LET before == setCells(map, g, n - 1, sz)
             entry == cellMapEntry(cellsAC[g].data[n].absPos, sz)
             slice == sz[1] * sz[2]
             free == {i \in 0..(LAYERS - 1) : before[entry + i * slice + 1] = NullPtr}
         IN  IF free = {} THEN before
             ELSE [before EXCEPT ![entry + FirstLayer(free) * slice + 1] = <<g, n - 1>>]

EmptyMap == [e \in 1..(LAYERS * MapSize * MapSize) |-> NullPtr]

\* the role of the arena a pointer leads into
Role(ptr) == IF ptr[1] = current THEN "current" ELSE "next"

\* one read or write of an entity by thread t of block b
\* (field "*": the whole entity)
Access(op, kind, field, ptr, b, t) ==
    [op |-> op, arena |-> Role(ptr), kind |-> kind, field |-> field, ptr |-> ptr,
     by |-> <<b, t>>]

\* a thread that has left the kernel.  atBarrier: the thread waits at a
\* __syncthreads(); used (history): the clusters for which the newCells and the
\* newCluster the thread last used in line 142-149 were written
DoneThread == [pc |-> "done", clusterIndex |-> 0, endClusterIndex |-> -1,
               cellIndex |-> 0, endCellIndex |-> -1,
               absPosInt |-> <<0, 0>>, otherCell |-> NullPtr, looked |-> FALSE,
               atBarrier |-> FALSE, used |-> <<-1, -1>>]

\* a thread about to call movement_Kernel(data, clusterIndex)
AtCluster(clusterIndex, endClusterIndex) ==
    [DoneThread EXCEPT !.pc = "start", !.clusterIndex = clusterIndex,
                       !.endClusterIndex = endClusterIndex]

\* movement_Kernel(CudaData data), line 180-195: the clusters of a block
launch(numClusters, numBlocks) ==
    [b \in 0..(numBlocks - 1) |-> [t \in ThreadIdx |->
        LET part == tiling_Kernel(numClusters, b, numBlocks)
        IN  IF b >= numClusters \/ part.startIndex > part.endIndex THEN DoneThread
            ELSE AtCluster(part.startIndex, part.endIndex)]]

\* the loop of line 192-194: the next cluster of the block, or the end
nextCluster(me) ==
    IF me.clusterIndex + 1 <= me.endClusterIndex
    THEN AtCluster(me.clusterIndex + 1, me.endClusterIndex)
    ELSE DoneThread

\* cellsFor, clusterFor (history): the cluster for which thread 0 wrote
\* rotMatrix and newCells, and newCluster; paired (history): every barrier of
\* the block was so far completed by threads waiting at the same
\* __syncthreads() of the call for the same cluster
BlankShared == [rotMatrix |-> rotMatrixOf(0), newCells |-> NullPtr, newCluster |-> NullPtr,
                cellsFor |-> -1, clusterFor |-> -1, paired |-> TRUE]

\* gridDim.x of the launch
gridDim == Cardinality(DOMAIN mth)

\* the threads of block b that wait at a __syncthreads()
Waiting(b) == {t \in ThreadIdx : mth[b][t].atBarrier}

\* __syncthreads() lets the waiting threads of block b go on: every other
\* thread of the block has left the kernel, or has returned from the call for
\* the cluster of the waiting threads (line 114-116) and has not yet begun the
\* call for a later cluster.  A thread that has returned and has gone on to
\* the call for a later cluster waits at the barriers of that call.
Released(b) ==
    /\ Waiting(b) # {}
    /\ \A t \in ThreadIdx \ Waiting(b) :
        \/ mth[b][t].pc = "done"
        \/ /\ mth[b][t].pc = "start"
           /\ \A w \in Waiting(b) : mth[b][t].clusterIndex > mth[b][w].clusterIndex

InitMovement ==
    /\ HashMapIdle
    /\ ParticlesIdle
    /\ WrapIdle
    /\ CudaIdle
    /\ FacadeIdle
    /\ ArenaIdle
    /\ TransferIdle
    /\ current = 1
    /\ \E aIndex \in {0, 1}, x \in 0..(MapSize - 1), y \in 0..(MapSize - 1) :
        LET angle == 0
            bIndex == 1 - aIndex
            aCells == IF aIndex = 0 THEN 0 ELSE 1
            bCells == IF aIndex = 0 THEN 2 ELSE 0
            clusterA == [numCells |-> 2, cells |-> <<1, aCells>>, angle |-> angle, angularVel |-> 90,
                         pos |-> <<Rat(3, 2), RatInt(1)>>, vel |-> <<Rat(1, 2), RatInt(0)>>]
            clusterB == [numCells |-> 1, cells |-> <<1, bCells>>, angle |-> 0, angularVel |-> 0,
                         pos |-> <<RatInt(x), RatInt(y)>>, vel |-> <<RatInt(0), RatInt(-1)>>]
            cellA0 == [BlankCell EXCEPT
                         !.absPos = absPosOf(BlankCell.relPos, rotMatrixOf(angle), clusterA.pos),
                         !.cluster = <<1, aIndex>>, !.numConnections = 1,
                         !.connections = <<<<1, aCells + 1>>>>]
            cellA1 == [BlankCell EXCEPT
                         !.relPos = <<RatInt(1), RatInt(0)>>,
                         !.absPos = absPosOf(<<RatInt(1), RatInt(0)>>, rotMatrixOf(angle), clusterA.pos),
                         !.cluster = <<1, aIndex>>, !.numConnections = 1,
                         !.connections = <<<<1, aCells>>>>]
            cellB0 == [BlankCell EXCEPT !.absPos = clusterB.pos, !.cluster = <<1, bIndex>>]
        IN  /\ clustersAC = <<[numEntries |-> 2, size |-> 2, overflow |-> FALSE,
                                data |-> IF aIndex = 0 THEN <<clusterA, clusterB>>
                                                         ELSE <<clusterB, clusterA>>],
                              [numEntries |-> 0, size |-> 2, overflow |-> FALSE,
                                data |-> <<BlankCluster, BlankCluster>>]>>
            /\ cellsAC = <<[numEntries |-> 3, size |-> 3, overflow |-> FALSE,
                             data |-> IF aIndex = 0 THEN <<cellA0, cellA1, cellB0>>
                                                      ELSE <<cellB0, cellA0, cellA1>>],
                           [numEntries |-> 0, size |-> 3, overflow |-> FALSE,
                             data |-> <<BlankCell, BlankCell, BlankCell>>]>>
    /\ map1 = setCells(EmptyMap, 1, 3, mapSize)
    /\ \E numBlocks \in 1..NumBlocks :
        /\ mth = launch(2, numBlocks)
        /\ shared = [b \in 0..(numBlocks - 1) |-> BlankShared]
    /\ kernelRuns = 0
    /\ accessLog = {}

\* line 112-121: the thread copies the cluster; a thread without a cell returns
movement_Kernel_begin(b, t) ==
    /\ mth[b][t].pc = "start"
    /\ LET me == mth[b][t]
           clusterPtr == <<current, me.clusterIndex>>
           cluster == ClusterAt(clusterPtr)
           part == tiling_Kernel(cluster.numCells, t, BlockDim)
       IN  /\ mth' = [mth EXCEPT ![b][t] =
                IF t >= cluster.numCells THEN nextCluster(me)
                ELSE [me EXCEPT !.pc = IF t = 0 THEN "allocateCells" ELSE "moveCells",
                                !.atBarrier = (t # 0),
                                !.cellIndex = part.startIndex,
                                !.endCellIndex = part.endIndex]]
           /\ accessLog' = accessLog \cup {Access("read", "cluster", "*", clusterPtr, b, t)}
    /\ UNCHANGED <<hmVars, pVars, wVars, fVars, acVars, toVars>>
    /\ UNCHANGED <<current, clustersAC, cellsAC, map1, shared, kernelRuns>>

\* line 126-133, thread 0: rotMatrix, newCells = data.cellsAC2.getArrayKernel(numCells)
movement_Kernel_allocateCells(b) ==
    /\ mth[b][0].pc = "allocateCells"
    /\ LET cluster == ClusterAt(<<current, mth[b][0].clusterIndex>>)
           got == getArrayKernel(cellsAC[NextArenaIndex], cluster.numCells)
       IN  /\ cellsAC' = [cellsAC EXCEPT ![NextArenaIndex] = got.ac]
           /\ shared' = [shared EXCEPT ![b].rotMatrix = rotMatrixOf(cluster.angle),
                                       ![b].cellsFor = mth[b][0].clusterIndex,
                                       ![b].newCells = <<NextArenaIndex, got.oldIndex>>]
    /\ mth' = [mth EXCEPT ![b][0].pc = "allocateCluster"]
    /\ UNCHANGED <<hmVars, pVars, wVars, fVars, acVars, toVars>>
    /\ UNCHANGED <<current, clustersAC, map1, kernelRuns, accessLog>>

\* line 134, thread 0: newCluster = data.clustersAC2.getElementKernel()
movement_Kernel_allocateCluster(b) ==
    /\ mth[b][0].pc = "allocateCluster"
    /\ LET got == getElementKernel(clustersAC[NextArenaIndex])
       IN  /\ clustersAC' = [clustersAC EXCEPT ![NextArenaIndex] = got.ac]
           /\ shared' = [shared EXCEPT ![b].newCluster = <<NextArenaIndex, got.oldIndex>>,
                                       ![b].clusterFor = mth[b][0].clusterIndex]
    /\ mth' = [mth EXCEPT ![b][0].pc = "moveCells", ![b][0].atBarrier = TRUE]
    /\ UNCHANGED <<hmVars, pVars, wVars, fVars, acVars, toVars>>
    /\ UNCHANGED <<current, cellsAC, map1, kernelRuns, accessLog>>

\* line 137-155, one turn of the loop: the cell is copied into newCells with its
\* new absPos and cluster, the old cell is given the pointer to its copy, and
\* the cell map is searched around the new position
movement_Kernel_moveCell(b, t) ==
    /\ mth[b][t].pc = "moveCells"
    /\ ~mth[b][t].atBarrier
    /\ LET me == mth[b][t]
           clusterPtr == <<current, me.clusterIndex>>
           cluster == ClusterAt(clusterPtr)
           cellPtr == PtrAdd(cluster.cells, me.cellIndex)
           newCellPtr == PtrAdd(shared[b].newCells, me.cellIndex)
           absPos == absPosOf(CellAt(cellPtr).relPos, shared[b].rotMatrix, cluster.pos)
           absPosInt == <<ToInt(absPos[1]), ToInt(absPos[2])>>
           cell == [CellAt(cellPtr) EXCEPT !.absPos = absPos, !.cluster = shared[b].newCluster]
           probed == readCellMap_Kernel_cellsRead(absPosInt, clusterPtr, map1, mapSize)
       IN  /\ cellsAC' = [cellsAC EXCEPT ![newCellPtr[1]].data[newCellPtr[2] + 1] = cell,
                                         ![cellPtr[1]].data[cellPtr[2] + 1].nextTimestep = newCellPtr]
           /\ mth' = [mth EXCEPT ![b][t] =
                [me EXCEPT !.pc = IF me.cellIndex + 1 <= me.endCellIndex
                                  THEN "moveCells" ELSE "redirectConnections",
                           !.atBarrier = ~(me.cellIndex + 1 <= me.endCellIndex),
                           !.used = <<shared[b].cellsFor, shared[b].clusterFor>>,
                           !.cellIndex = IF me.cellIndex + 1 <= me.endCellIndex
                                         THEN me.cellIndex + 1
                                         ELSE tiling_Kernel(cluster.numCells, t, BlockDim).startIndex,
                           !.absPosInt = absPosInt,
                           !.otherCell = readCellMap_Kernel(absPosInt, clusterPtr, map1, mapSize),
                           !.looked = TRUE]]
           /\ accessLog' = accessLog \cup
                {Access("read", "cell", "*", cellPtr, b, t),
                 Access("write", "cell", "*", newCellPtr, b, t),
                 Access("write", "cell", "nextTimestep", cellPtr, b, t)}
                \cup {Access("read", "cell", "cluster", p, b, t) : p \in probed}
    /\ UNCHANGED <<hmVars, pVars, wVars, fVars, acVars, toVars>>
    /\ UNCHANGED <<current, clustersAC, map1, shared, kernelRuns>>

\* line 157-165, one turn of the loop: every connection of the new cell is
\* replaced by the copy of the cell it leads to
movement_Kernel_redirectConnections(b, t) ==
    /\ mth[b][t].pc = "redirectConnections"
    /\ ~mth[b][t].atBarrier
    /\ LET me == mth[b][t]
           newCellPtr == PtrAdd(shared[b].newCells, me.cellIndex)
           newCell == CellAt(newCellPtr)
           connections == [i \in 1..newCell.numConnections |->
                              CellAt(newCell.connections[i]).nextTimestep]
       IN  IF \E i \in 1..newCell.numConnections : newCell.connections[i] = NullPtr
           THEN \* connections[i]->nextTimestep through a null pointer: the thread
                \* traps and the launch does not come to an end
                /\ mth' = [mth EXCEPT ![b][t].pc = "fault"]
                /\ accessLog' = accessLog \cup
                     {Access("read", "cell", "numConnections", newCellPtr, b, t),
                      Access("read", "cell", "connections", newCellPtr, b, t)}
                /\ UNCHANGED cellsAC
           ELSE /\ cellsAC' = [cellsAC EXCEPT
                                 ![newCellPtr[1]].data[newCellPtr[2] + 1].connections = connections]
                /\ mth' = [mth EXCEPT ![b][t] =
                     [me EXCEPT !.pc = IF me.cellIndex + 1 <= me.endCellIndex
                                       THEN "redirectConnections"
                                       ELSE IF t = 0 THEN "moveCluster" ELSE "syncthreads",
                                !.atBarrier = ~(me.cellIndex + 1 <= me.endCellIndex) /\ t # 0,
                                !.cellIndex = me.cellIndex + 1]]
                /\ accessLog' = accessLog \cup
                     {Access("read", "cell", "numConnections", newCellPtr, b, t),
                      Access("read", "cell", "connections", newCellPtr, b, t),
                      Access("write", "cell", "connections", newCellPtr, b, t)}
                     \cup {Access("read", "cell", "nextTimestep", newCell.connections[i], b, t) :
                             i \in 1..newCell.numConnections}
    /\ UNCHANGED <<hmVars, pVars, wVars, fVars, acVars, toVars>>
    /\ UNCHANGED <<current, clustersAC, map1, shared, kernelRuns>>

\* line 167-175, thread 0: the moved and turned cluster is written to newCluster
movement_Kernel_moveCluster(b) ==
    /\ mth[b][0].pc = "moveCluster"
    /\ LET cluster == ClusterAt(<<current, mth[b][0].clusterIndex>>)
           newCluster == shared[b].newCluster
           moved == [cluster EXCEPT
                       !.angle = angleCorrection_Kernel(cluster.angle + cluster.angularVel),
                       !.pos = mapCorrection_Kernel_double2(VecAdd(cluster.pos, cluster.vel), mapSize),
                       !.cells = shared[b].newCells]
       IN  /\ clustersAC' = [clustersAC EXCEPT ![newCluster[1]].data[newCluster[2] + 1] = moved]
           /\ accessLog' = accessLog \cup {Access("write", "cluster", "*", newCluster, b, 0)}
    /\ mth' = [mth EXCEPT ![b][0].pc = "syncthreads", ![b][0].atBarrier = TRUE]
    /\ UNCHANGED <<hmVars, pVars, wVars, fVars, acVars, toVars>>
    /\ UNCHANGED <<current, cellsAC, map1, shared, kernelRuns>>

\* __syncthreads() of line 137, 157 and 176: the waiting threads of block b go
\* on; those at the end of the call (line 176) go to the next cluster of the
\* block (line 192-194)
movement_Kernel_syncthreads(b) ==
    /\ Released(b)
    /\ mth' = [mth EXCEPT ![b] = [t \in ThreadIdx |->
                IF ~mth[b][t].atBarrier THEN mth[b][t]
                ELSE IF mth[b][t].pc = "syncthreads" THEN nextCluster(mth[b][t])
                ELSE [mth[b][t] EXCEPT !.atBarrier = FALSE]]]
    /\ shared' = [shared EXCEPT ![b].paired =
                    /\ shared[b].paired
                    /\ \A t \in Waiting(b), u \in Waiting(b) :
                        /\ mth[b][t].clusterIndex = mth[b][u].clusterIndex
                        /\ mth[b][t].pc = mth[b][u].pc]
    /\ UNCHANGED <<hmVars, pVars, wVars, fVars, acVars, toVars>>
    /\ UNCHANGED <<current, clustersAC, cellsAC, map1, kernelRuns, accessLog>>

\* the host between two launches: the arenas change roles, the arena that
\* becomes clustersAC2, cellsAC2 is emptied, the cell map is rebuilt from the
\* cells that are now current, and movement_Kernel is launched again
swapArrays ==
    /\ \A b \in DOMAIN mth, t \in ThreadIdx : mth[b][t].pc = "done"
    /\ kernelRuns + 1 < MaxKernelRuns
    /\ current' = NextArenaIndex
    /\ clustersAC' = [clustersAC EXCEPT ![current].numEntries = 0]
    /\ cellsAC' = [cellsAC EXCEPT ![current].numEntries = 0]
    /\ map1' = setCells(EmptyMap, NextArenaIndex, cellsAC[NextArenaIndex].numEntries, mapSize)
    /\ mth' = launch(clustersAC[NextArenaIndex].numEntries, gridDim)
    /\ shared' = [b \in DOMAIN mth |-> [BlankShared EXCEPT !.paired = shared[b].paired]]
    /\ kernelRuns' = kernelRuns + 1
    /\ accessLog' = {}
    /\ UNCHANGED <<hmVars, pVars, wVars, fVars, acVars, toVars>>

NextMovement ==
    \/ \E b \in DOMAIN mth, t \in ThreadIdx : movement_Kernel_begin(b, t)
    \/ \E b \in DOMAIN mth : movement_Kernel_allocateCells(b)
    \/ \E b \in DOMAIN mth : movement_Kernel_allocateCluster(b)
    \/ \E b \in DOMAIN mth, t \in ThreadIdx : movement_Kernel_moveCell(b, t)
    \/ \E b \in DOMAIN mth, t \in ThreadIdx : movement_Kernel_redirectConnections(b, t)
    \/ \E b \in DOMAIN mth : movement_Kernel_moveCluster(b)
    \/ \E b \in DOMAIN mth : movement_Kernel_syncthreads(b)
    \/ swapArrays

SpecMovement == InitMovement /\ [][NextMovement]_vars

(***************************************************************************)
(* Claims about movement_Kernel, checked under SpecMovement.               *)
(***************************************************************************)
\* the threads that have searched the cell map (line 154)
Searchers == {bt \in (DOMAIN mth) \X ThreadIdx : mth[bt[1]][bt[2]].looked}

\* the nine grid cells around posInt, posInt included
Neighbourhood(posInt) ==
    {mapCorrection_Kernel_int2(<<posInt[1] + dx, posInt[2] + dy>>, mapSize) :
        dx \in {-1, 0, 1}, dy \in {-1, 0, 1}}

\* the grid cells readCellMap_Kernel inspects for posInt
Inspected(posInt) ==
    {mapCorrection_Kernel_int2(readCellMap_Kernel_probes(posInt)[k], mapSize) : k \in 1..9}

\* C30: for every search of the cell map made at posInt for a cluster, the
\* grid cells inspected are exactly the nine wrapped grid cells around posInt,
\* and the search returns a cell whenever a cell of another cluster is in a
\* layer of one of the nine.
C30_ProbesNeighbourhood ==
    \A bt \in Searchers :
        LET me == mth[bt[1]][bt[2]]
            clusterPtr == <<current, me.clusterIndex>>
        IN  /\ Inspected(me.absPosInt) = Neighbourhood(me.absPosInt)
            /\ (\E pos \in Neighbourhood(me.absPosInt) :
                    readCellMapHelper_Kernel(pos, clusterPtr, map1, mapSize) # NullPtr)
                => me.otherCell # NullPtr

\* C30 witness: a search that returned nullptr although a cell of another
\* cluster is in the grid cell of posInt itself.
C30_MissedAtCentre ==
    \E bt \in Searchers :
        LET me == mth[bt[1]][bt[2]]
        IN  /\ me.otherCell = NullPtr
            /\ readCellMapHelper_Kernel(me.absPosInt, <<current, me.clusterIndex>>,
                                        map1, mapSize) # NullPtr

\* the entities written as a whole into an arena by the running launch of
\* movement_Kernel, each with the thread that wrote it
WrittenNew == {a \in accessLog : a.op = "write" /\ a.field = "*"}

\* C22: one of the two arenas of each kind is current, the other one
\* next; the running pass has read entities only from the current arenas, has
\* written new entities only into the next arenas, and has read no entity of
\* the next arenas.
C22_GenerationSwap ==
    /\ current \in {1, 2} /\ NextArenaIndex \in {1, 2} \ {current}
    /\ \A a \in WrittenNew : a.arena = "next"
    /\ \A a \in accessLog : a.op = "read" => a.arena = "current"

\* C22 witness: the arenas have changed roles once, and in the second pass a
\* thread has written a cell into the arena that is now next, has given the
\* current cell the pointer to it and has read the connections of the new cell.
C22_Witness ==
    /\ kernelRuns = 1 /\ current = 2
    /\ \E a \in accessLog :
        /\ a.op = "read" /\ a.arena = "next" /\ a.ptr[1] = 1
        /\ [a EXCEPT !.op = "write", !.field = "*"] \in WrittenNew
    /\ \E a \in accessLog : a.op = "write" /\ a.arena = "current" /\ a.ptr[1] = 2

\* the occupants of the layers of the grid cell posInt wraps to, lowest first
LayersAt(posInt) ==
    LET pos == mapCorrection_Kernel_int2(posInt, mapSize)
    IN  [i \in 1..LAYERS |-> map1[pos[1] + pos[2] * MapSize + (i - 1) * MapSize * MapSize + 1]]

\* the layers, among layers, that hold a cell of a cluster other than cluster
OthersAt(layers, cluster) ==
    {i \in 1..LAYERS : layers[i] # NullPtr /\ CellAt(layers[i]).cluster # cluster}

\* C33: once the cell map is searched, readCellMapHelper_Kernel gives, for every
\* position (inside the map or wrapping into it) and every querying cluster,
\* nullptr exactly if every layer of the grid cell is empty or holds a cell of
\* that cluster, and otherwise the occupant of the lowest layer that holds a
\* cell of another cluster; what every search returned is no cell of the
\* searching cluster.
C33_LayeredLookup ==
    Searchers # {} =>
        /\ \A x \in (-1)..MapSize, y \in (-1)..MapSize :
            LET layers == LayersAt(<<x, y>>)
            IN  \A c \in 0..(clustersAC[current].numEntries - 1) :
                    LET found == readCellMapHelper_Kernel(<<x, y>>, <<current, c>>, map1, mapSize)
                        others == OthersAt(layers, <<current, c>>)
                    IN  IF others = {} THEN found = NullPtr
                        ELSE found = layers[FirstLayer(others)]
        /\ \A bt \in Searchers :
            LET me == mth[bt[1]][bt[2]]
            IN  me.otherCell # NullPtr => CellAt(me.otherCell).cluster # <<current, me.clusterIndex>>

\* C33 witness: a search returned the cell of another cluster from the second
\* layer of a grid cell whose first layer holds a cell of the searching cluster.
C33_Witness ==
    \E bt \in Searchers, x \in 0..(MapSize - 1), y \in 0..(MapSize - 1) :
        LET me == mth[bt[1]][bt[2]]
        IN  /\ LayersAt(<<x, y>>)[1] # NullPtr
            /\ CellAt(LayersAt(<<x, y>>)[1]).cluster = <<current, me.clusterIndex>>
            /\ LayersAt(<<x, y>>)[2] # NullPtr
            /\ me.otherCell = LayersAt(<<x, y>>)[2]

\* C31: every thread that has computed the new position of a cell of cluster c
\* (line 139-155) used the rotation matrix, the newCells and the newCluster
\* that thread 0 wrote for that same cluster c.
C31_SharedRotationMatrix ==
    \A bt \in Searchers :
        LET me == mth[bt[1]][bt[2]]
        IN  me.used = <<me.clusterIndex, me.clusterIndex>>

\* C31 witness: a thread has copied a cell of a cluster with the rotation
\* matrix, the newCells and the newCluster written for the cluster before it.
C31_UsedOtherCluster ==
    \E bt \in Searchers :
        LET me == mth[bt[1]][bt[2]]
        IN  me.clusterIndex = 1 /\ me.used = <<0, 0>>


\* the launch of movement_Kernel has come to its end in every block
LaunchEnded == \A b \in DOMAIN mth, t \in ThreadIdx : mth[b][t].pc = "done"

\* the cells of the clusters of the current generation
OldCells ==
    UNION {{PtrAdd(clustersAC[current].data[c + 1].cells, i) :
               i \in 0..(clustersAC[current].data[c + 1].numCells - 1)} :
           c \in 0..(clustersAC[current].numEntries - 1)}

\* the connections of the cell at ptr
ConnectionsOf(ptr) == {CellAt(ptr).connections[i] : i \in 1..CellAt(ptr).numConnections}

\* the connections of the copy of the old cell at ptr are the copies of the
\* cells the old cell is connected to, all of them in the next generation, and
\* every one of them is connected back to the copy
Redirected(ptr) ==
    LET old == CellAt(ptr)
        newPtr == old.nextTimestep
    IN  /\ newPtr # NullPtr
        /\ newPtr[1] = NextArenaIndex
        /\ CellAt(newPtr).numConnections = old.numConnections
        /\ \A i \in 1..old.numConnections :
            LET to == CellAt(newPtr).connections[i]
            IN  /\ to # NullPtr
                /\ to[1] = NextArenaIndex
                /\ to = CellAt(old.connections[i]).nextTimestep
                /\ newPtr \in ConnectionsOf(to)

\* C32: when movement_Kernel has processed the clusters, every connection of
\* every cell of the new generation leads to the copy, in the new generation,
\* of the cell the connection led to before; the connections stay symmetric
\* and their number stays the same.
C32_ConnectionsRedirected ==
    LaunchEnded => \A ptr \in OldCells : Redirected(ptr)

\* C32, on the launches in which every barrier was completed by threads
\* waiting at the same __syncthreads() of the call for the same cluster
C32_ConnectionsRedirectedPaired ==
    (LaunchEnded /\ \A b \in DOMAIN mth : shared[b].paired) =>
        \A ptr \in OldCells : Redirected(ptr)

\* C32 witness: the launch has ended and the copy of a cell with a connection
\* has a connection that is not the copy of the cell it led to.
C32_ConnectionLost ==
    /\ LaunchEnded
    /\ \E ptr \in OldCells :
        /\ CellAt(ptr).numConnections > 0
        /\ CellAt(ptr).nextTimestep # NullPtr
        /\ ~Redirected(ptr)


(***************************************************************************)
(* Claims about concurrent callers of the hash map, checked under          *)
(* SpecHashMap.                                                            *)
(***************************************************************************)
\* the slots in use whose key has been written
Occupied == {i \in Slots : _entries[i].free = 1 /\ _entries[i].key # NoKey}

\* no two slots in use hold the same key
KeysUnique == \A i \in Occupied, j \in Occupied : _entries[i].key = _entries[j].key => i = j

\* a step of an insertOrAssign call whose key is stored takes no slot into use,
\* writes no key, and writes no value but that of its key
AssignOnly ==
    \A t \in Threads :
        (/\ th[t].op = "insertOrAssign"
         /\ th[t].key \in StoredKeys
         /\ th'[t] # th[t]) =>
            /\ _size' = _size
            /\ \A i \in Slots :
                /\ _entries'[i].free = _entries[i].free
                /\ _entries'[i].key = _entries[i].key
                /\ _entries'[i].value # _entries[i].value => _entries[i].key = th[t].key

\* C34: under every interleaving of insertOrAssign, contains and at calls no
\* two slots in use hold the same key, also when several threads insert the
\* same new key at the same time; an insertOrAssign of a stored key changes
\* only the value of that key, and the number of slots in use stays the same.
C34_KeyUniqueness == []KeysUnique /\ [][AssignOnly]_vars

\* C34 witness: two threads have inserted the same key at the same time, one
\* took a free slot and the other found the key in it; the map holds the key.
C34_Witness ==
    \E t \in Threads, u \in Threads :
        /\ t # u
        /\ th[t].pc = "done" /\ th[t].op = "insertOrAssign" /\ th[t].wasFree = 0
        /\ th[u].pc = "done" /\ th[u].op = "insertOrAssign" /\ th[u].wasFree = 1
        /\ th[t].key = th[u].key
        /\ th[u].index = th[t].index
        /\ Cardinality(Occupied) >= 2


\* a slot in use stays in use, and a key once written stays
SlotsStay ==
    /\ _size' = _size
    /\ \A i \in Slots :
        /\ _entries[i].free = 1 => _entries'[i].free = 1
        /\ _entries[i].key # NoKey => _entries'[i].key = _entries[i].key

\* the keys found by contains and at are stored, the stored keys are those
\* whose insertOrAssign has returned, and a contains or at that began after
\* the insertOrAssign of its key had returned finds the key
NeverMissed ==
    /\ StoredKeys = returned
    /\ \A t \in Threads :
        /\ (th[t].pc = "done" /\ th[t].op = "contains" /\ th[t].result = TRUE) =>
               th[t].key \in StoredKeys
        /\ (th[t].pc = "done" /\ th[t].op = "contains" /\ th[t].key \in StoredKeys
               /\ th[t].pre) => th[t].result = TRUE
        /\ (th[t].pc = "done" /\ th[t].op = "at" /\ th[t].pre) => th[t].result # DefaultValue
        /\ (th[t].op = "at" /\ th[t].pre) => th[t].pc # "hang"

\* C35: after init_blockCall a slot in use never becomes free and never
\* changes its key; a key that contains has found is stored, so every later
\* contains of it returns true; and a contains or at that runs at the same time
\* as insertions of other keys finds every key whose insertOrAssign had returned
\* before it began.
C35_MonotonicContainment == [][SlotsStay]_vars /\ []NeverMissed

\* C35 witness: a contains of a key whose insertOrAssign had returned has
\* probed past the slot of another key and returned true while another thread
\* is inserting another key and holds the lock of a slot.
C35_Witness ==
    \E t \in Threads, u \in Threads :
        /\ th[t].pc = "done" /\ th[t].op = "contains" /\ th[t].pre
        /\ th[t].result = TRUE /\ th[t].dummy >= 1
        /\ th[u].op = "insertOrAssign" /\ th[u].key # th[t].key
        /\ th[u].pc \in {"ins_setFree", "ins_used", "ins_new"}


\* the sum of the energies of the particles of ps, a sequence of particles,
\* that are pointed to and alive
RECURSIVE AliveEnergy(_, _)
AliveEnergy(ps, ids) ==
    IF ids = {} THEN 0
    ELSE LET i == CHOOSE j \in ids : TRUE
         IN  (IF ps[i].alive THEN ps[i].energy ELSE 0) + AliveEnergy(ps, ids \ {i})

\* C36: when the collision pass has ended, the energies of the particles that
\* are alive add up to what the energies of the particles alive at its
\* beginning added up to, and every particle that is not alive has energy 0.
C36_PhaseConservesEnergy ==
    CollisionDone =>
        /\ AliveEnergy(particles, Pointed) = AliveEnergy(atCollision, Pointed)
        /\ \A p \in Pointed : ~particles[p].alive => particles[p].energy = 0

\* C36 witness: the collision pass has ended, two lanes have merged their
\* particles with the same other particle, and the second of them did so after
\* the first had marked it dead: its particle has the energy it began with.
C36_Witness ==
    /\ CollisionDone
    /\ \E m1 \in merged, m2 \in merged :
        /\ m1[1] # m2[1] /\ m1[2] = m2[2]
        /\ ~particles[m1[2]].alive /\ atCollision[m1[2]].energy > 0
        /\ particles[m1[1]].energy = atCollision[m1[1]].energy + atCollision[m1[2]].energy
        /\ particles[m2[1]].energy = atCollision[m2[1]].energy


\* the positions of a lane in the collision pass at which it has not called
\* lock.tryLock() for its particle, or has gone on to the next particle
OutsideLock == {"loop", "alive1", "alive2", "lock1", "end"}

\* C37: in the collision pass a lane that is not between lock.tryLock() and the
\* end of the iteration owns no lock, a locked flag that is set is owned by a
\* lane that is, and when the pass has ended the locked flag of every particle
\* is 0.
C37_LocksReleased ==
    phase = "collision" =>
        /\ \A l \in Lanes : lane[l].pc \in OutsideLock =>
               \A i \in DOMAIN particles : particles[i].owner # l
        /\ \A i \in DOMAIN particles : particles[i].locked = 1 =>
               /\ particles[i].owner \in Lanes
               /\ lane[particles[i].owner].pc \notin OutsideLock
        /\ CollisionDone => \A i \in DOMAIN particles : particles[i].locked = 0

\* C37 witness: a lane took the first lock, found the second one taken by the
\* other lane and has given the first one back, while the other lane that
\* finished a merge before has its locks released and is at the end of the pass.
C37_Witness ==
    /\ phase = "collision" /\ merged # {}
    /\ \E l \in Lanes :
        /\ lane[l].pc = "isLocked"
        /\ lane[l].lockState1 = 0 /\ lane[l].lockState2 # 0
        /\ \A i \in DOMAIN particles : particles[i].locked = 0
        /\ \A k \in Lanes \ {l} : lane[k].pc = "end"


(***************************************************************************)
(* _CudaSimulationFacade: the capacities of the cell, particle and token   *)
(* arenas and of the transfer buffers (line 270, 518-524, 588-594,         *)
(* 638-676), and getInspectedSimulationData (line 363-378).  The entity    *)
(* array of the facade above is followed here kind by kind.                *)
(* SimulationData and the data access kernels are not part of the sources  *)
(* at hand and are modelled from the specification: an arena that cannot   *)
(* take the additional entities is enlarged, the others keep their         *)
(* capacity; the inspection pass extracts the records of the ids it is     *)
(* handed, up to the first 0.                                              *)
(***************************************************************************)
MaxAdditional == 2          \* additional entities asked for, per kind: 0..MaxAdditional
MaxEntries == 3             \* at most this many entities of a kind are created
MaxCapacity == 10           \* the arenas are not enlarged beyond this capacity
MaxInspectedEntities == 2   \* Const::MaxInspectedEntities
NumIds == 2                 \* the ids 1..NumIds are asked for

\* struct ArraySizes
ArraySizes(c, p, t) == [cellArraySize |-> c, particleArraySize |-> p, tokenArraySize |-> t]

\* line 270: resizeArrays({100000, 100000, 10000}), scaled down
DefaultArraySizes == ArraySizes(2, 2, 1)

AdditionalSizes ==
    {ArraySizes(c, p, t) : c \in 0..MaxAdditional, p \in 0..MaxAdditional, t \in 0..MaxAdditional}

\* SimulationData::shouldResize: some arena cannot take its additional entities
SimulationData_shouldResize(additionals) ==
    \/ arenaEntries.cellArraySize + additionals.cellArraySize > arraySizes.cellArraySize
    \/ arenaEntries.particleArraySize + additionals.particleArraySize > arraySizes.particleArraySize
    \/ arenaEntries.tokenArraySize + additionals.tokenArraySize > arraySizes.tokenArraySize

\* SimulationData::resizeEntitiesForCleanup and resizeRemainings: the capacity
\* of each arena after the resize
SimulationData_resizeEntitiesForCleanup(entries, sizes, additionals) ==
    ArraySizes(
        resizeEntitiesForCleanup([i \in 1..entries.cellArraySize |-> i],
                                 sizes.cellArraySize, additionals.cellArraySize),
        resizeEntitiesForCleanup([i \in 1..entries.particleArraySize |-> i],
                                 sizes.particleArraySize, additionals.particleArraySize),
        resizeEntitiesForCleanup([i \in 1..entries.tokenArraySize |-> i],
                                 sizes.tokenArraySize, additionals.tokenArraySize))

\* getArraySizes (line 518-524)
getArraySizes == arraySizes

\* resizeArrays, line 656-666: the transfer buffers are freed and acquired
\* again; cellArraySize and tokenArraySize are read (line 661-662), and the
\* particle buffer is acquired with cellArraySize (line 664)
resizeArrays_acquireMemory(sizes, accessTO) ==
    LET cellArraySize == sizes.cellArraySize
        tokenArraySize == sizes.tokenArraySize
    IN  [accessTO EXCEPT !.cells = cellArraySize,
                         !.particles = cellArraySize,
                         !.tokens = tokenArraySize]

\* the device transfer object before any buffer is acquired (line 248)
EmptyAccessTO == [cells |-> 0, particles |-> 0, tokens |-> 0, data |-> <<>>]

\* the constructor (line 232-271): empty arenas, resizeArrays with the default
\* sizes
InitTransfer ==
    /\ HashMapIdle
    /\ ParticlesIdle
    /\ WrapIdle
    /\ CudaIdle
    /\ FacadeIdle
    /\ ArenaIdle
    /\ MovementIdle
    /\ arenaEntries = ArraySizes(0, 0, 0)
    /\ arraySizes = SimulationData_resizeEntitiesForCleanup(
                        ArraySizes(0, 0, 0), ArraySizes(0, 0, 0), DefaultArraySizes)
    /\ _cudaAccessTO = resizeArrays_acquireMemory(
                        SimulationData_resizeEntitiesForCleanup(
                            ArraySizes(0, 0, 0), ArraySizes(0, 0, 0), DefaultArraySizes),
                        EmptyAccessTO)
    /\ dataTO = <<>>
    /\ inspection = [called |-> FALSE]

\* resizeArraysIfNecessary(additionals) (line 588-594) and resizeArrays (line
\* 638-676)
resizeArraysIfNecessary_perKind ==
    \E additionals \in AdditionalSizes :
        /\ SimulationData_shouldResize(additionals)
        /\ LET sizes == SimulationData_resizeEntitiesForCleanup(arenaEntries, arraySizes, additionals)
           IN  /\ sizes.cellArraySize <= MaxCapacity
               /\ sizes.particleArraySize <= MaxCapacity
               /\ sizes.tokenArraySize <= MaxCapacity
               /\ arraySizes' = sizes
               /\ _cudaAccessTO' = resizeArrays_acquireMemory(sizes, _cudaAccessTO)
        /\ UNCHANGED <<arenaEntries, dataTO, inspection>>
        /\ UNCHANGED <<hmVars, pVars, wVars, fVars, acVars, mvVars>>

\* an entity of one kind is created by a pass or an import
createEntity ==
    \E kind \in {"cellArraySize", "particleArraySize", "tokenArraySize"} :
        /\ arenaEntries[kind] < arraySizes[kind]
        /\ arenaEntries[kind] < MaxEntries
        /\ arenaEntries' = [arenaEntries EXCEPT ![kind] = @ + 1]
        /\ UNCHANGED <<arraySizes, _cudaAccessTO, dataTO, inspection>>
        /\ UNCHANGED <<hmVars, pVars, wVars, fVars, acVars, mvVars>>

\* the id lists getInspectedSimulationData is called with
InspectedIdLists == UNION {[1..n -> 1..NumIds] : n \in 0..(MaxInspectedEntities + 1)}

\* mutant: the terminator of line 372-374 is not written
InspectedEntityIds_noTerminator(entityIds, garbage) ==
    [i \in 1..MaxInspectedEntities |-> IF i <= Len(entityIds) THEN entityIds[i] ELSE garbage]

\* line 365-374: InspectedEntityIds ids, not initialized (garbage), then the
\* given ids, then the terminator
InspectedEntityIds(entityIds, garbage) ==
    LET values == [i \in 1..MaxInspectedEntities |->
                      IF i <= Len(entityIds) THEN entityIds[i] ELSE garbage]
    IN  IF Len(entityIds) < MaxInspectedEntities
        THEN [values EXCEPT ![Len(entityIds) + 1] = 0]
        ELSE values

\* the ids of ids.values before the first 0
RECURSIVE UpToTerminator(_)
UpToTerminator(values) ==
    IF values = <<>> \/ Head(values) = 0 THEN <<>>
    ELSE <<Head(values)>> \o UpToTerminator(Tail(values))

\* the inspection pass: the records of the cells among the ids handed over
getInspectedData(ids) ==
    SelectSeq(UpToTerminator(ids), LAMBDA id : id <= arenaEntries.cellArraySize)

\* getInspectedSimulationData(entityIds, dataTO) (line 363-378)
getInspectedSimulationData ==
    \E entityIds \in InspectedIdLists, garbage \in 0..NumIds :
        /\ IF Len(entityIds) > MaxInspectedEntities
           THEN /\ inspection' = [called |-> TRUE, entityIds |-> entityIds, launched |-> FALSE,
                                  ids |-> <<>>, before |-> dataTO]
                /\ UNCHANGED <<_cudaAccessTO, dataTO>>
           ELSE LET ids == InspectedEntityIds(entityIds, garbage)
                IN  /\ _cudaAccessTO' = [_cudaAccessTO EXCEPT !.data = getInspectedData(ids)]
                    /\ dataTO' = getInspectedData(ids)
                    /\ inspection' = [called |-> TRUE, entityIds |-> entityIds,
                                      launched |-> TRUE, ids |-> ids, before |-> dataTO]
        /\ UNCHANGED <<arenaEntries, arraySizes>>
        /\ UNCHANGED <<hmVars, pVars, wVars, fVars, acVars, mvVars>>

NextTransfer ==
    \/ resizeArraysIfNecessary_perKind
    \/ createEntity
    \/ getInspectedSimulationData

SpecTransfer == InitTransfer /\ [][NextTransfer]_vars

(***************************************************************************)
(* Claims about the transfer buffers and the inspection, checked under     *)
(* SpecTransfer.                                                           *)
(***************************************************************************)
\* C38: the transfer buffer of each kind, cells, particles and tokens, has at
\* least the capacity of the arena of that kind, after the constructor and
\* after every resizeArrays.
C38_TransferBuffersMatch ==
    /\ _cudaAccessTO.cells >= getArraySizes.cellArraySize
    /\ _cudaAccessTO.particles >= getArraySizes.particleArraySize
    /\ _cudaAccessTO.tokens >= getArraySizes.tokenArraySize

\* C38 witness: after a resize that enlarged the particle arena and not the
\* cell arena, the particle transfer buffer is smaller than the particle
\* arena, while the cell and token buffers have the capacity of their arenas.
C38_ParticleBufferTooSmall ==
    /\ _cudaAccessTO.particles < getArraySizes.particleArraySize
    /\ _cudaAccessTO.cells = getArraySizes.cellArraySize
    /\ _cudaAccessTO.tokens = getArraySizes.tokenArraySize
    /\ getArraySizes.particleArraySize > DefaultArraySizes.particleArraySize * 2

\* C39: a getInspectedSimulationData with more than MaxInspectedEntities ids
\* launches no pass and leaves the transfer object of the caller as it was;
\* with at most that many ids the pass is handed the given ids in their order,
\* followed by 0 if they are fewer than MaxInspectedEntities, and its result
\* is copied into the transfer object of the caller.
C39_BoundedInspectedIds ==
    inspection.called =>
        IF Len(inspection.entityIds) > MaxInspectedEntities
        THEN ~inspection.launched /\ dataTO = inspection.before
        ELSE /\ inspection.launched
             /\ Len(inspection.ids) = MaxInspectedEntities
             /\ \A i \in 1..Len(inspection.entityIds) : inspection.ids[i] = inspection.entityIds[i]
             /\ Len(inspection.entityIds) < MaxInspectedEntities =>
                    inspection.ids[Len(inspection.entityIds) + 1] = 0
             /\ dataTO = _cudaAccessTO.data
             /\ \A i \in 1..Len(dataTO) : \E j \in 1..Len(inspection.entityIds) :
                    dataTO[i] = inspection.entityIds[j]

\* C39 witness: a call with too many ids has returned, and the transfer object
\* of the caller still holds the record an earlier call with one id got.
C39_Witness ==
    /\ inspection.called
    /\ Len(inspection.entityIds) > MaxInspectedEntities
    /\ ~inspection.launched
    /\ Len(dataTO) = 1
    /\ Len(_cudaAccessTO.data) = 1

=============================================================================
